---------------------------- MODULE Spec2Model ----------------------------
(***************************************************************************)
(* A model of the Trading-bot back-testing core:                           *)
(*   - backtest/engine.py      BacktestEngine (bar loop, fills, ledger)    *)
(*   - strategies/turtle_like.py  TurtleLikeStrategy (on_bar and checks)   *)
(*   - indicators/*.py         ATR, EMA, Donchian                          *)
(*                                                                         *)
(* Units.  Prices and money are integers counted in ticks; one tick is the *)
(* price step 0.5 of the source's default SLIPPAGE_ABS, so SLIPPAGE_ABS =  *)
(* 0.5 is 1, a commission of 5.0 is 10 and the price 101.5 is 203.         *)
(* Python's None is the empty tuple <<>>; an Optional value v is <<v>>.    *)
(* A Python dict is a record whose DOMAIN is its key set; a non-dict       *)
(* result of on_bar (None) is the record NoOrder, which has no "action".   *)
(* Bar index i is 0-based as in the source; df.iloc[k] is Row(df, k).      *)
(***************************************************************************)
EXTENDS Integers, Sequences, FiniteSets, TLC

VARIABLES
    cfg,            \* BacktestEngine.cfg (EngineConfig)
    position,       \* BacktestEngine.position (PositionState)
    trades,         \* BacktestEngine.trades (list of Trade)
    equity_curve,   \* BacktestEngine.equity_curve
    pc,             \* where BacktestEngine.run is: "idle", "loop", "done", "raised"
    df,             \* run's argument df: the rows, in order
    columns,        \* run's argument df: its column names
    i,              \* run's loop variable (0-based index of the next bar)
    capital,        \* run's local capital
    order,          \* run's local order: what strategy.on_bar returned last
    result,         \* the dict run returns
    params,         \* TurtleLikeStrategy.params (TurtleParams)
    s_pc,           \* where the strategy object is: "ready", "raised"
    s_bars,         \* TurtleLikeStrategy._bars
    s_df,           \* TurtleLikeStrategy._df (None, or the indicator rows)
    strat,          \* TurtleLikeStrategy position fields
    signal,         \* what the last on_bar call returned
    evaluated,      \* which checks the last on_bar call evaluated, in order
    replay,         \* the caller replaying bars through a second, fresh pair
    grid,           \* run_grid: its argument param_grid and its locals
    store,          \* data/store.py: the series file and the call writing it
    http            \* OandaClient._request: its loop and the responses it got

engineVars == <<cfg, position, trades, equity_curve, pc, df, columns, i,
                capital, order, result>>
turtleVars == <<params, s_pc, s_bars, s_df, strat, signal, evaluated>>
vars == <<cfg, position, trades, equity_curve, pc, df, columns, i, capital,
          order, result, params, s_pc, s_bars, s_df, strat, signal, evaluated,
          replay, grid, store, http>>
ioVars == <<store, http>>

-----------------------------------------------------------------------------
(* Bounds of the model *)

\* longest df handed to BacktestEngine.run
MaxBars == 3

\* most bars fed to TurtleLikeStrategy.on_bar
MaxTurtleBars == 5

-----------------------------------------------------------------------------
(* Python values *)

None == <<>>
Some(v) == <<v>>
Val(o) == o[1]

Max(a, b) == IF a >= b THEN a ELSE b
Min(a, b) == IF a <= b THEN a ELSE b
Abs(a) == IF a >= 0 THEN a ELSE -a

\* str.upper() on the strings that occur as order fields
Upper(s) ==
    CASE s = "enter" -> "ENTER"
      [] s = "exit"  -> "EXIT"
      [] s = "long"  -> "LONG"
      [] s = "short" -> "SHORT"
      [] OTHER       -> s

\* on_bar returned None
NoOrder == [none |-> TRUE]

\* dict.get(key, default)
Get(d, key, default) == IF key \in DOMAIN d THEN d[key] ELSE default

-----------------------------------------------------------------------------
(* backtest/engine.py : data *)

\* PositionState() with its dataclass defaults
FlatPosition ==
    [side |-> "FLAT", entry_price |-> None, qty |-> 0, entry_time |-> None]

\* df.iloc[k]
Row(d, k) == d[k + 1]

RequiredColumns == {"time", "open", "high", "low", "close"}

\* BacktestEngine.__init__ : the sanity checks that raise ValueError
EngineConfigOk(c) ==
    /\ ~(c.SLIPPAGE_ABS < 0)
    /\ ~(c.COMMISSION_FIXED < 0)
    /\ ~(c.DEFAULT_QTY <= 0)
    /\ ~(c.POINT_VALUE <= 0)

\* _validate_df looking for the time column only
ValidateDf_timeOnly(cols) == "time" \in cols

\* BacktestEngine._validate_df : TRUE when it does not raise
ValidateDf(cols) == (RequiredColumns \ cols) = {}

-----------------------------------------------------------------------------
(* backtest/engine.py : BacktestEngine.run, one loop iteration *)

\* ExecIndex with the order always executed on the bar that signalled it
ExecIndex_sameBar(k, n) == k

\* which bar an order signalled on bar k is executed on
ExecIndex(k, n) ==
    IF cfg.EXECUTION_TIMING = "next_open"
    THEN IF k + 1 < n THEN k + 1 ELSE k
    ELSE k

\* which price of that bar it is executed at
ExecField(k, n) ==
    IF cfg.EXECUTION_TIMING = "next_open"
    THEN IF k + 1 < n THEN "open" ELSE "close"
    ELSE "close"

\* fill_price = float(df.iloc[exec_index][exec_field])
FillPrice(d, k) == Row(d, ExecIndex(k, Len(d)))[ExecField(k, Len(d))]

\* the time stamp of the fill: df.iloc[exec_index]["time"]
FillTime(d, k) == Row(d, ExecIndex(k, Len(d))).time

\* OrderQty without the replacement of a non-positive qty
OrderQty_asGiven(o) == Get(o, "qty", cfg.DEFAULT_QTY)

\* qty = float(order.get("qty", DEFAULT_QTY)); if qty <= 0: qty = DEFAULT_QTY
OrderQty(o) ==
    LET q == Get(o, "qty", cfg.DEFAULT_QTY)
    IN  IF q <= 0 THEN cfg.DEFAULT_QTY ELSE q

\* ExitShortPx with the sign of a sale
ExitShortPx_minus(fill) == fill - cfg.SLIPPAGE_ABS

\* the four slippage conventions
EnterLongPx(fill)  == fill + cfg.SLIPPAGE_ABS
EnterShortPx(fill) == fill - cfg.SLIPPAGE_ABS
ExitLongPx(fill)   == fill - cfg.SLIPPAGE_ABS
ExitShortPx(fill)  == fill + cfg.SLIPPAGE_ABS

\* pnl of an EXIT, commission on the exit included
ExitPnlLong(px, pos) ==
    (px - Val(pos.entry_price)) * pos.qty * cfg.POINT_VALUE - cfg.COMMISSION_FIXED
ExitPnlShort(px, pos) ==
    (Val(pos.entry_price) - px) * pos.qty * cfg.POINT_VALUE - cfg.COMMISSION_FIXED

\* CapitalAfterEnter charging the entry twice
CapitalAfterEnter_twice(cap) == cap - 2 * cfg.COMMISSION_FIXED

\* capital -= COMMISSION_FIXED after an executed ENTER
CapitalAfterEnter(cap) == cap - cfg.COMMISSION_FIXED

\* BacktestEngine._enter_long / _enter_short : the position is overwritten
EnterLong(pos, price, qty, t) ==
    [side |-> "LONG", entry_price |-> Some(price), qty |-> qty,
     entry_time |-> Some(t)]
\* EnterShort opening the position on the long side
EnterShort_asLong(pos, price, qty, t) ==
    [side |-> "LONG", entry_price |-> Some(price), qty |-> qty,
     entry_time |-> Some(t)]
EnterShort(pos, price, qty, t) ==
    [side |-> "SHORT", entry_price |-> Some(price), qty |-> qty,
     entry_time |-> Some(t)]

\* CloseTrade stamping the entry with the time of the exit
CloseTrade_exitStamp(pos, symbol, exit_price, t, pnl, reason) ==
    [symbol |-> symbol, side |-> pos.side, qty |-> pos.qty,
     entry_time |-> t, entry_price |-> Val(pos.entry_price),
     exit_time |-> t, exit_price |-> exit_price, pnl |-> pnl,
     reason |-> reason]

\* BacktestEngine._close_trade : the Trade it appends
CloseTrade(pos, symbol, exit_price, t, pnl, reason) ==
    [symbol |-> symbol, side |-> pos.side, qty |-> pos.qty,
     entry_time |-> Val(pos.entry_time), entry_price |-> Val(pos.entry_price),
     exit_time |-> t, exit_price |-> exit_price, pnl |-> pnl,
     reason |-> reason]

\* EquityPoint with the open position marked to the bar's close
EquityPoint_markToMarket(d, k, cap, pos) ==
    [time |-> Row(d, k).time,
     equity |-> cap +
        (IF pos.side = "LONG"
         THEN (Row(d, k).close - Val(pos.entry_price)) * pos.qty * cfg.POINT_VALUE
         ELSE IF pos.side = "SHORT"
         THEN (Val(pos.entry_price) - Row(d, k).close) * pos.qty * cfg.POINT_VALUE
         ELSE 0)]

\* the equity snapshot appended at the end of an iteration
EquityPoint(d, k, cap, pos) == [time |-> Row(d, k).time, equity |-> cap]

\* The body of the for loop for bar k and on_bar's result o.  The result is
\* the new position, capital and ledger, and whether the iteration reached
\* the equity snapshot (the `continue` of an EXIT while FLAT skips it).
ExecuteOrder(o, d, k, pos, cap, ledger) ==
    LET stay == [position |-> pos, capital |-> cap, trades |-> ledger,
                 snapshot |-> TRUE]
    IN
    IF ~("action" \in DOMAIN o) THEN stay
    ELSE
    LET fill_price == FillPrice(d, k)
        t          == FillTime(d, k)
        action     == Upper(o.action)
        reason     == Get(o, "reason", "NA")
    IN
    IF action = "ENTER" THEN
        LET side == Upper(Get(o, "side", ""))
            qty  == OrderQty(o)
        IN  IF side = "LONG" THEN
                [stay EXCEPT
                   !.position = EnterLong(pos, EnterLongPx(fill_price), qty, t),
                   !.capital  = CapitalAfterEnter(cap)]
            ELSE IF side = "SHORT" THEN
                IF ~cfg.ALLOW_SHORT THEN stay
                ELSE
                [stay EXCEPT
                   !.position = EnterShort(pos, EnterShortPx(fill_price), qty, t),
                   !.capital  = CapitalAfterEnter(cap)]
            ELSE stay
    ELSE IF action = "EXIT" THEN
        IF pos.side = "FLAT" THEN [stay EXCEPT !.snapshot = FALSE]
        ELSE IF pos.side = "LONG" THEN
            LET px  == ExitLongPx(fill_price)
                pnl == ExitPnlLong(px, pos)
            IN  [stay EXCEPT
                   !.position = FlatPosition,
                   !.capital  = cap + pnl,
                   !.trades   = Append(ledger,
                                  CloseTrade(pos, "XAUUSD", px, t, pnl, reason))]
        ELSE IF pos.side = "SHORT" THEN
            LET px  == ExitShortPx(fill_price)
                pnl == ExitPnlShort(px, pos)
            IN  [stay EXCEPT
                   !.position = FlatPosition,
                   !.capital  = cap + pnl,
                   !.trades   = Append(ledger,
                                  CloseTrade(pos, "XAUUSD", px, t, pnl, reason))]
        ELSE stay
    ELSE stay

-----------------------------------------------------------------------------
(* The inputs of the engine *)

\* EngineConfig values the engine is constructed with
EngineConfigs ==
    [EXECUTION_TIMING : {"close", "next_open"},
     SLIPPAGE_ABS     : {0, 1},
     COMMISSION_FIXED : {10},
     INITIAL_CAPITAL  : {1000},
     DEFAULT_QTY      : {1},
     POINT_VALUE      : {1},
     ALLOW_SHORT      : BOOLEAN]

\* the open/close shapes of the bars of df (high and low bracket them)
BarShapes ==
    { [open |-> 200, high |-> 204, low |-> 198, close |-> 202],
      [open |-> 202, high |-> 204, low |-> 198, close |-> 200],
      [open |-> 206, high |-> 208, low |-> 204, close |-> 204] }

\* the "time" column: strictly increasing
BarTime(k) == 1000 + 10 * k

\* the df whose k-th row (0-based) has the k-th shape and time BarTime(k)
MakeDf(shapes) ==
    [j \in 1..Len(shapes) |->
        [time |-> BarTime(j - 1), open |-> shapes[j].open,
         high |-> shapes[j].high, low |-> shapes[j].low,
         close |-> shapes[j].close]]

SeqsUpTo(S, n) == UNION { [1..m -> S] : m \in 0..n }

DataFrames == { MakeDf(s) : s \in SeqsUpTo(BarShapes, MaxBars) }

\* what a strategy's on_bar may hand back to the engine
Orders ==
    { NoOrder,
      [side |-> "LONG"],
      [action |-> "HOLD"],
      [action |-> "ENTER", side |-> "LONG", qty |-> 10],
      [action |-> "ENTER", side |-> "LONG"],
      [action |-> "ENTER", side |-> "SHORT", qty |-> 10],
      [action |-> "enter", side |-> "short", qty |-> 0],
      [action |-> "ENTER", side |-> "BOTH", qty |-> 10],
      [action |-> "EXIT", reason |-> "TRAIL_ATR"],
      [action |-> "EXIT"] }

-----------------------------------------------------------------------------
(* indicators/atr.py, donchian.py, ema.py : the value at row t (1-based) of  *)
(* the series computed over the whole buffer; None is NaN.  turtle_like.py  *)
(* imports atr, ema, donchian_high and donchian_low from indicators.core,   *)
(* which the source tree does not hold; the functions of these names in     *)
(* atr.py, ema.py and donchian.py are the ones modelled.                    *)

\* true_range: at the first row h - prev_close and l - prev_close are NaN,
\* and max(axis=1) skips them
TrueRange(bars, t) ==
    IF t = 1 THEN bars[t].high - bars[t].low
    ELSE Max(bars[t].high - bars[t].low,
             Max(Abs(bars[t].high - bars[t - 1].close),
                 Abs(bars[t].low - bars[t - 1].close)))

RECURSIVE SumTrueRange(_, _, _)
SumTrueRange(bars, from, to) ==
    IF from > to THEN 0
    ELSE TrueRange(bars, to) + SumTrueRange(bars, from, to - 1)

\* atr: rolling(window, min_periods=window).mean() of the true range.  The
\* prices of the model are multiples of the window, so the mean is exact.
Atr(bars, t, window) ==
    IF t < window THEN None
    ELSE Some(SumTrueRange(bars, t - window + 1, t) \div window)

RECURSIVE RollingMax(_, _, _)
RollingMax(bars, from, to) ==
    IF from = to THEN bars[to].high
    ELSE Max(bars[to].high, RollingMax(bars, from, to - 1))

RECURSIVE RollingMin(_, _, _)
RollingMin(bars, from, to) ==
    IF from = to THEN bars[to].low
    ELSE Min(bars[to].low, RollingMin(bars, from, to - 1))

\* DonchianHigh with a window that runs on to the end of the buffer
DonchianHigh_wholeBuffer(bars, t, window) ==
    IF t < window THEN None
    ELSE Some(RollingMax(bars, t - window + 1, Len(bars)))

\* donchian_high / donchian_low: rolling(window, min_periods=window).max()
\* of high, .min() of low; the window ends on row t itself
DonchianHigh(bars, t, window) ==
    IF t < window THEN None ELSE Some(RollingMax(bars, t - window + 1, t))
DonchianLow(bars, t, window) ==
    IF t < window THEN None ELSE Some(RollingMin(bars, t - window + 1, t))

RECURSIVE Pow(_, _)
Pow(b, e) == IF e = 0 THEN 1 ELSE b * Pow(b, e - 1)

\* ema: ewm(span=length, adjust=False).mean(), y1 = x1 and
\* y_t = (1 - a) * y_{t-1} + a * x_t with a = 2 / (length + 1).  The value is
\* the fraction EmaNum / EmaDen, kept exact.
RECURSIVE EmaNum(_, _, _)
EmaNum(bars, t, length) ==
    IF t = 1 THEN bars[1].close
    ELSE (length - 1) * EmaNum(bars, t - 1, length)
            + 2 * bars[t].close * Pow(length + 1, t - 2)
EmaDen(t, length) == Pow(length + 1, t - 1)

\* ema: the value at row t.  ewm(...).mean() is called without min_periods
\* (0 by default), so every row has a value, the first being the close
Ema(bars, t, length) ==
    Some([num |-> EmaNum(bars, t, length), den |-> EmaDen(t, length)])

-----------------------------------------------------------------------------
(* strategies/turtle_like.py : TurtleParams *)

\* TurtleParams.validate: TRUE when it does not raise.  RISK_PER_TRADE is in
\* hundredths (5 is 0.05).
Validate(p) ==
    ~p.STRICT_VALIDATION \/
    ( /\ p.RISK_PER_TRADE > 0 /\ p.BASE_CAPITAL > 0 /\ p.VALUE_PER_POINT > 0
      /\ p.MIN_QTY > 0 /\ p.STOP_K > 0 /\ p.TRAIL_K > 0
      /\ p.MAX_LEVERAGE >= 1
      /\ p.SLIPPAGE_PER_TICK >= 0
      /\ p.COMMISSION_PER_TRADE >= 0
      /\ p.ATR_LEN >= 1 /\ p.EMA_TREND_LEN >= 1
      /\ p.DONCHIAN_ENTRY_X >= 2 /\ p.DONCHIAN_EXIT_Y >= 2
      /\ p.PYRAMID_UNITS >= 1
      /\ p.MIN_QTY <= p.MAX_QTY )

\* the number of bars on_bar asks for before it evaluates anything
Warmup(p) == Max(p.ATR_LEN, Max(p.DONCHIAN_ENTRY_X, p.DONCHIAN_EXIT_Y)) + 2

-----------------------------------------------------------------------------
(* strategies/turtle_like.py : TurtleLikeStrategy *)

\* the position fields as __init__ sets them, and as an exit resets them
FlatStrat ==
    [position |-> "FLAT", entry_price |-> None, stop_price |-> None,
     qty |-> 0, added_units |-> 0, next_add_price |-> None]

RequiredKeys == {"time", "open", "high", "low", "close"}

\* _append_bar: TRUE when it does not raise KeyError
BarKeysOk(bar) == RequiredKeys \subseteq DOMAIN bar

\* _compute_indicators: the rows of self._df
ComputeIndicators(p, bars) ==
    [t \in 1..Len(bars) |->
        [time  |-> bars[t].time,
         close |-> bars[t].close,
         atr   |-> Atr(bars, t, p.ATR_LEN),
         ema_trend |->
            IF p.USE_TREND_FILTER
            THEN Some([num |-> EmaNum(bars, t, p.EMA_TREND_LEN),
                       den |-> EmaDen(t, p.EMA_TREND_LEN)])
            ELSE None,
         donch_high_X |-> DonchianHigh(bars, t, p.DONCHIAN_ENTRY_X),
         donch_low_X  |-> DonchianLow(bars, t, p.DONCHIAN_ENTRY_X),
         donch_high_Y |-> DonchianHigh(bars, t, p.DONCHIAN_EXIT_Y),
         donch_low_Y  |-> DonchianLow(bars, t, p.DONCHIAN_EXIT_Y)]]

\* AtrUnusable refusing a NaN only
AtrUnusable_nanOnly(atr) == atr = None

\* the test `atr is None or atr <= 0` of the three checks
AtrUnusable(atr) == atr = None \/ Val(atr) <= 0

\* _compute_qty_and_stop.  denom = max(1e-12, STOP_K * atr * VALUE_PER_POINT)
\* is that product whenever it is positive (it is then at least one tick);
\* otherwise raw_qty is 1e12 times the risked money, above any MAX_QTY.
ComputeQtyAndStop(p, side, entry_price, atr) ==
    LET money   == (p.BASE_CAPITAL * p.RISK_PER_TRADE) \div 100
        product == p.STOP_K * atr * p.VALUE_PER_POINT
        capped  == IF product > 0
                   THEN Min(money \div product, p.MAX_QTY)
                   ELSE p.MAX_QTY
    IN  [qty |-> Max(p.MIN_QTY, capped),
         stop_init |-> IF side = "LONG"
                       THEN entry_price - p.STOP_K * atr
                       ELSE entry_price + p.STOP_K * atr]

\* _compute_next_add_price
ComputeNextAddPrice(p, side, ref_price, atr) ==
    IF p.PYRAMID_UNITS <= 0 THEN None
    ELSE IF p.PYRAMID_STEP_ATR <= 0 \/ atr <= 0 THEN None
    ELSE IF side = "LONG" THEN Some(ref_price + p.PYRAMID_STEP_ATR * atr)
    ELSE IF side = "SHORT" THEN Some(ref_price - p.PYRAMID_STEP_ATR * atr)
    ELSE None

\* _enter_position
EnterPosition(p, side, entry_price, qty, atr, stop_init) ==
    [position |-> side, entry_price |-> Some(entry_price),
     stop_price |-> Some(stop_init), qty |-> qty, added_units |-> 0,
     next_add_price |-> ComputeNextAddPrice(p, side, entry_price, atr)]

\* breakout_long accepting a close that only touches the channel
BreakoutLong_touch(dhX, close) ==
    IF dhX = None THEN FALSE ELSE close >= Val(dhX)

\* breakout_long of _maybe_enter (both branches of CONFIRM_ON_CLOSE test
\* `close > dhX`)
BreakoutLong(dhX, close) ==
    IF dhX = None THEN FALSE ELSE close > Val(dhX)

\* breakout_short of _maybe_enter
BreakoutShort(dlX, close) ==
    IF dlX = None THEN FALSE ELSE close < Val(dlX)

\* _maybe_enter: the strategy state afterwards and the order returned
MaybeEnter(p, st, d) ==
    LET last  == d[Len(d)]
        close == last.close
        hold  == [strat |-> st, order |-> NoOrder]
    IN
    IF AtrUnusable(last.atr) THEN hold
    ELSE IF p.USE_TREND_FILTER /\ last.ema_trend = None THEN hold
    ELSE
    LET atr == Val(last.atr)
        dhX == last.donch_high_X
        dlX == last.donch_low_X
        ema_ok_long ==
            IF p.USE_TREND_FILTER
            THEN close * Val(last.ema_trend).den > Val(last.ema_trend).num
            ELSE TRUE
        ema_ok_short ==
            IF p.USE_TREND_FILTER
            THEN close * Val(last.ema_trend).den < Val(last.ema_trend).num
            ELSE TRUE
        breakout_long  == BreakoutLong(dhX, close)
        breakout_short == BreakoutShort(dlX, close)
    IN
    IF ema_ok_long /\ breakout_long THEN
        LET qs == ComputeQtyAndStop(p, "LONG", close, atr)
        IN  IF qs.qty <= 0 THEN hold
            ELSE [strat |-> EnterPosition(p, "LONG", close, qs.qty, atr,
                                          qs.stop_init),
                  order |-> [action |-> "ENTER", side |-> "LONG",
                             qty |-> qs.qty, price |-> close,
                             time |-> last.time]]
    ELSE IF p.ALLOW_SHORT /\ ema_ok_short /\ breakout_short THEN
        LET qs == ComputeQtyAndStop(p, "SHORT", close, atr)
        IN  IF qs.qty <= 0 THEN hold
            ELSE [strat |-> EnterPosition(p, "SHORT", close, qs.qty, atr,
                                          qs.stop_init),
                  order |-> [action |-> "ENTER", side |-> "SHORT",
                             qty |-> qs.qty, price |-> close,
                             time |-> last.time]]
    ELSE hold

\* PyramidExhausted allowing one add more than PYRAMID_UNITS
PyramidExhausted_oneMore(p, st) == st.added_units > p.PYRAMID_UNITS

\* the test `self.added_units >= self.params.PYRAMID_UNITS` of _maybe_pyramid
PyramidExhausted(p, st) == st.added_units >= p.PYRAMID_UNITS

\* _maybe_pyramid
MaybePyramid(p, st, d) ==
    LET last  == d[Len(d)]
        close == last.close
        hold  == [strat |-> st, order |-> NoOrder]
    IN
    IF st.position = "FLAT" \/ p.PYRAMID_UNITS <= 0 THEN hold
    ELSE IF AtrUnusable(last.atr) THEN hold
    ELSE IF PyramidExhausted(p, st) THEN hold
    ELSE IF st.next_add_price = None THEN hold
    ELSE
    LET atr == Val(last.atr)
        add(side) ==
            [strat |-> [st EXCEPT
                          !.added_units = st.added_units + 1,
                          !.next_add_price =
                             ComputeNextAddPrice(p, side,
                                                 Val(st.next_add_price), atr)],
             order |-> [action |-> "ENTER", side |-> side, qty |-> st.qty,
                        price |-> close, time |-> last.time,
                        reason |-> "PYRAMID"]]
    IN
    IF st.position = "LONG" /\ close >= Val(st.next_add_price) THEN add("LONG")
    ELSE IF st.position = "SHORT" /\ close <= Val(st.next_add_price)
    THEN add("SHORT")
    ELSE hold

\* `self.stop_price or default`: None and 0.0 are both falsy
StopOrDefault(stop_price) == stop_price # None /\ Val(stop_price) # 0

\* the working stop after the trailing update of _maybe_exit
TrailedStop(p, st, close, atr) ==
    IF ~p.USE_TRAIL_ATR THEN st.stop_price
    ELSE IF st.position = "LONG" THEN
        LET candidate == close - p.TRAIL_K * atr
        IN  IF StopOrDefault(st.stop_price)
            THEN Some(Max(Val(st.stop_price), candidate))
            ELSE Some(candidate)
    ELSE IF st.position = "SHORT" THEN
        LET candidate == close + p.TRAIL_K * atr
        IN  IF StopOrDefault(st.stop_price)
            THEN Some(Min(Val(st.stop_price), candidate))
            ELSE Some(candidate)
    ELSE st.stop_price

\* MaybeExit returning the EXIT with the position fields left as they are
MaybeExit_noReset(p, st, d) ==
    LET last == d[Len(d)]
    IN  IF st.position = "FLAT" \/ AtrUnusable(last.atr)
        THEN [strat |-> st, order |-> NoOrder]
        ELSE LET stop == TrailedStop(p, st, last.close, Val(last.atr))
                 hit  == /\ p.USE_TRAIL_ATR
                         /\ IF st.position = "LONG"
                            THEN last.close <= Val(stop)
                            ELSE last.close >= Val(stop)
             IN  IF hit
                 THEN [strat |-> [st EXCEPT !.stop_price = stop],
                       order |-> [action |-> "EXIT", reason |-> "TRAIL_ATR",
                                  position |-> st.position, qty |-> st.qty,
                                  stop_price |-> stop, price |-> last.close,
                                  time |-> last.time]]
                 ELSE [strat |-> [st EXCEPT !.stop_price = stop],
                       order |-> NoOrder]

\* _maybe_exit
MaybeExit(p, st, d) ==
    LET last  == d[Len(d)]
        close == last.close
    IN
    IF st.position = "FLAT" THEN [strat |-> st, order |-> NoOrder]
    ELSE IF AtrUnusable(last.atr) THEN [strat |-> st, order |-> NoOrder]
    ELSE
    LET atr  == Val(last.atr)
        stop == TrailedStop(p, st, close, atr)
        exit_by_atr ==
            /\ p.USE_TRAIL_ATR
            /\ \/ st.position = "LONG"  /\ close <= Val(stop)
               \/ st.position = "SHORT" /\ close >= Val(stop)
        exit_by_donch ==
            /\ p.USE_DONCHIAN_EXIT
            /\ \/ /\ st.position = "LONG"
                  /\ last.donch_low_Y # None
                  /\ close < Val(last.donch_low_Y)
               \/ /\ st.position = "SHORT"
                  /\ last.donch_high_Y # None
                  /\ close > Val(last.donch_high_Y)
    IN
    IF exit_by_atr \/ exit_by_donch
    THEN [strat |-> FlatStrat,
          order |-> [action |-> "EXIT",
                     reason |-> IF exit_by_atr THEN "TRAIL_ATR"
                                ELSE "DONCHIAN_INVERSE",
                     position |-> st.position, qty |-> st.qty,
                     stop_price |-> stop, price |-> close,
                     time |-> last.time]]
    ELSE [strat |-> [st EXCEPT !.stop_price = stop], order |-> NoOrder]

\* on_bar after the hold test: 1) exit, 2) pyramid, 3) entry if FLAT.  Each
\* check that returns an order ends the call.
EvaluateChecks(p, st, d) ==
    LET ex == MaybeExit(p, st, d)
    IN
    IF "action" \in DOMAIN ex.order
    THEN [strat |-> ex.strat, order |-> ex.order, evaluated |-> <<"exit">>]
    ELSE
    LET py == MaybePyramid(p, ex.strat, d)
    IN
    IF "action" \in DOMAIN py.order
    THEN [strat |-> py.strat, order |-> py.order,
          evaluated |-> <<"exit", "pyramid">>]
    ELSE
    IF py.strat.position = "FLAT"
    THEN LET en == MaybeEnter(p, py.strat, d)
         IN  [strat |-> en.strat, order |-> en.order,
              evaluated |-> <<"exit", "pyramid", "enter">>]
    ELSE [strat |-> py.strat, order |-> NoOrder,
          evaluated |-> <<"exit", "pyramid">>]

\* HoldGuard counting the bars received and asking for two fewer
HoldGuard_short(p, dfv, bars) == Len(bars) < Warmup(p) - 2

\* the test of on_bar that returns None before anything is evaluated:
\* `self._df is None or len(self._df) < max(...) + 2`
HoldGuard(p, dfv, bars) == dfv = None \/ Len(Val(dfv)) < Warmup(p)

\* on_bar(bar) for a bar that has the required keys.  _append_bar appends
\* the bar and sets self._df = None; _compute_indicators fills self._df.
OnBar(p, st, bars, dfv, bar) ==
    LET bars1 == Append(bars, bar)
        df1   == None
    IN
    IF HoldGuard(p, df1, bars1)
    THEN [bars |-> bars1, df |-> df1, strat |-> st, order |-> NoOrder,
          evaluated |-> <<>>]
    ELSE
    LET df2 == IF df1 # None THEN df1 ELSE Some(ComputeIndicators(p, bars1))
        r   == EvaluateChecks(p, st, Val(df2))
    IN  [bars |-> bars1, df |-> df2, strat |-> r.strat, order |-> r.order,
         evaluated |-> r.evaluated]

-----------------------------------------------------------------------------
(* BacktestEngine: the state machine *)

\* run_grid has not been called
NoGrid == [pc |-> "none", param_grid |-> <<>>, combos |-> <<>>,
           rows |-> <<>>, out |-> None]

\* no series file is being written
NoStore == [pc |-> "none", file |-> None]

\* no request is being made
NoHttp == [pc |-> "none"]

\* no replay is going on
NoReplay == [run |-> 0, orders |-> <<>>, first |-> None]

\* BacktestEngine(config) has been constructed; run has not been called
Init ==
    /\ cfg \in { c \in EngineConfigs : EngineConfigOk(c) }
    /\ position = FlatPosition
    /\ trades = <<>>
    /\ equity_curve = <<>>
    /\ pc = "idle"
    /\ df = <<>>
    /\ columns = {}
    /\ i = 0
    /\ capital = 0
    /\ order = NoOrder
    /\ result = None
    /\ params = None
    /\ s_pc = "ready"
    /\ s_bars = <<>>
    /\ s_df = None
    /\ strat = FlatStrat
    /\ signal = NoOrder
    /\ evaluated = <<>>
    /\ replay = NoReplay
    /\ grid = NoGrid
    /\ store = NoStore
    /\ http = NoHttp

\* run(strategy, df): _validate_df passes, capital and n are set
RunStart ==
    /\ pc = "idle"
    /\ \E d \in DataFrames :
         /\ df' = d
         /\ columns' = RequiredColumns
    /\ ValidateDf(columns')
    /\ capital' = cfg.INITIAL_CAPITAL
    /\ i' = 0
    /\ pc' = "loop"
    /\ UNCHANGED <<cfg, position, trades, equity_curve, order, result>>
    /\ UNCHANGED turtleVars
    /\ UNCHANGED <<replay, grid>>
    /\ UNCHANGED ioVars

\* run(strategy, df): _validate_df raises ValueError, nothing else happens
RunRaises ==
    /\ pc = "idle"
    /\ \E d \in DataFrames, missing \in RequiredColumns :
         /\ Len(d) <= 1
         /\ df' = d
         /\ columns' = (RequiredColumns \cup {"volume"}) \ {missing}
    /\ ~ValidateDf(columns')
    /\ pc' = "raised"
    /\ UNCHANGED <<cfg, position, trades, equity_curve, i, capital, order, result>>
    /\ UNCHANGED turtleVars
    /\ UNCHANGED <<replay, grid>>
    /\ UNCHANGED ioVars

\* one iteration of the for loop: on_bar's result is any order
RunBar ==
    /\ pc = "loop"
    /\ i < Len(df)
    /\ \E o \in Orders :
         LET r == ExecuteOrder(o, df, i, position, capital, trades)
         IN  /\ order' = o
             /\ position' = r.position
             /\ capital' = r.capital
             /\ trades' = r.trades
             /\ equity_curve' =
                  IF r.snapshot
                  THEN Append(equity_curve,
                              EquityPoint(df, i, r.capital, r.position))
                  ELSE equity_curve
    /\ i' = i + 1
    /\ UNCHANGED <<cfg, pc, df, columns, result>>
    /\ UNCHANGED turtleVars
    /\ UNCHANGED <<replay, grid>>
    /\ UNCHANGED ioVars

\* the loop is over: run returns its dict
RunReturn ==
    /\ pc = "loop"
    /\ i = Len(df)
    /\ pc' = "done"
    /\ result' = Some([trades |-> trades, equity_curve |-> equity_curve,
                       final_equity |-> capital, nb_trades |-> Len(trades),
                       symbol |-> "XAUUSD",
                       execution_timing |-> cfg.EXECUTION_TIMING,
                       slippage_abs |-> cfg.SLIPPAGE_ABS,
                       commission_fixed |-> cfg.COMMISSION_FIXED])
    /\ UNCHANGED <<cfg, position, trades, equity_curve, df, columns, i,
                   capital, order>>
    /\ UNCHANGED turtleVars
    /\ UNCHANGED <<replay, grid>>
    /\ UNCHANGED ioVars

Next == RunStart \/ RunRaises \/ RunBar \/ RunReturn

Spec == Init /\ [][Next]_vars


-----------------------------------------------------------------------------
(* TurtleLikeStrategy: the inputs *)

\* parameter sets handed to the constructor: windows of two bars, so that
\* on_bar asks for four bars
BaseParams ==
    [RISK_PER_TRADE |-> 5, BASE_CAPITAL |-> 1200, MAX_LEVERAGE |-> 1,
     ALLOW_SHORT |-> TRUE, VALUE_PER_POINT |-> 1, MIN_QTY |-> 12,
     MAX_QTY |-> 30, ATR_LEN |-> 2, EMA_TREND_LEN |-> 3,
     USE_TREND_FILTER |-> FALSE, DONCHIAN_ENTRY_X |-> 2,
     CONFIRM_ON_CLOSE |-> TRUE, STOP_K |-> 1, USE_TRAIL_ATR |-> TRUE,
     TRAIL_K |-> 2, USE_DONCHIAN_EXIT |-> TRUE, DONCHIAN_EXIT_Y |-> 2,
     PYRAMID_UNITS |-> 1, PYRAMID_STEP_ATR |-> 1, SLIPPAGE_PER_TICK |-> 1,
     COMMISSION_PER_TRADE |-> 0, STRICT_VALIDATION |-> TRUE]

TurtleParamSets ==
    { BaseParams,
      [BaseParams EXCEPT !.PYRAMID_UNITS = 0],
      [BaseParams EXCEPT !.PYRAMID_UNITS = 0, !.STRICT_VALIDATION = FALSE,
                         !.USE_TREND_FILTER = TRUE, !.ALLOW_SHORT = FALSE,
                         !.USE_TRAIL_ATR = FALSE],
      [BaseParams EXCEPT !.PYRAMID_STEP_ATR = 0] }

\* bars fed to on_bar: a flat bar, two bars closing outside their own range
\* (the strategy does not check a bar), a ranging bar
TurtleShapes ==
    { [open |-> 10, high |-> 10, low |-> 10, close |-> 10],
      [open |-> 10, high |-> 10, low |-> 10, close |-> 14],
      [open |-> 10, high |-> 10, low |-> 10, close |-> 6],
      [open |-> 10, high |-> 12, low |-> 8,  close |-> 10] }

TurtleBar(shape, k) ==
    [time |-> BarTime(k), open |-> shape.open, high |-> shape.high,
     low |-> shape.low, close |-> shape.close]

\* the k-th bar of a steadily rising series: the close goes up by one price
\* step a bar, each bar closes on its high, the range is the same on every
\* bar
RisingBar(k) ==
    [time |-> BarTime(k), open |-> 2 * k + 8, high |-> 2 * k + 10,
     low |-> 2 * k, close |-> 2 * k + 10]

\* the bars on_bar may be given as its k-th
BarsAt(k) == { TurtleBar(shape, k) : shape \in TurtleShapes } \cup {RisingBar(k)}

\* a bar without its close
BrokenBar(k) == [time |-> BarTime(k), open |-> 10, high |-> 10, low |-> 10]

-----------------------------------------------------------------------------
(* TurtleLikeStrategy: the state machine *)

\* TurtleLikeStrategy.__init__ with parameters that validate() accepts
InitTurtle ==
    /\ params \in { Some(p) : p \in { q \in TurtleParamSets : Validate(q) } }
    /\ s_pc = "ready"
    /\ s_bars = <<>>
    /\ s_df = None
    /\ strat = FlatStrat
    /\ signal = NoOrder
    /\ evaluated = <<>>
    /\ replay = NoReplay
    /\ grid = NoGrid
    /\ cfg = None
    /\ position = FlatPosition
    /\ trades = <<>>
    /\ equity_curve = <<>>
    /\ pc = "idle"
    /\ df = <<>>
    /\ columns = {}
    /\ i = 0
    /\ capital = 0
    /\ order = NoOrder
    /\ result = None
    /\ store = NoStore
    /\ http = NoHttp

\* on_bar(bar) returns
TurtleOnBar ==
    /\ s_pc = "ready"
    /\ Len(s_bars) < MaxTurtleBars
    /\ \E bar \in BarsAt(Len(s_bars)) :
         LET r == OnBar(Val(params), strat, s_bars, s_df, bar)
         IN  /\ BarKeysOk(bar)
             /\ s_bars' = r.bars
             /\ s_df' = r.df
             /\ strat' = r.strat
             /\ signal' = r.order
             /\ evaluated' = r.evaluated
    /\ UNCHANGED <<params, s_pc>>
    /\ UNCHANGED engineVars
    /\ UNCHANGED <<replay, grid>>
    /\ UNCHANGED ioVars

\* on_bar(bar) raises KeyError out of _append_bar
TurtleOnBarRaises ==
    /\ s_pc = "ready"
    /\ Len(s_bars) < MaxTurtleBars
    /\ ~BarKeysOk(BrokenBar(Len(s_bars)))
    /\ s_pc' = "raised"
    /\ UNCHANGED <<params, s_bars, s_df, strat, signal, evaluated>>
    /\ UNCHANGED engineVars
    /\ UNCHANGED <<replay, grid>>
    /\ UNCHANGED ioVars

NextTurtle == TurtleOnBar \/ TurtleOnBarRaises

SpecTurtle == InitTurtle /\ [][NextTurtle]_vars

-----------------------------------------------------------------------------
(* BacktestEngine.run(TurtleLikeStrategy, df), run twice by a caller: once,  *)
(* and again over the same df with a second pair built from equal parameters *)

\* the EngineConfig values of the replayed runs
ReplayConfigs ==
    { c \in EngineConfigs : c.SLIPPAGE_ABS = 1 /\ c.ALLOW_SHORT }

\* the df of the replayed runs
ReplayFrames == { MakeDf(s) : s \in SeqsUpTo(TurtleShapes, MaxTurtleBars) }

\* BacktestEngine._row_to_bar
RowToBar(row) ==
    [time |-> row.time, open |-> row.open, high |-> row.high,
     low |-> row.low, close |-> row.close,
     volume |-> IF "volume" \in DOMAIN row THEN row.volume ELSE 0]

\* FreshPair handing back the objects of the run before
FreshPair_reused ==
    [position |-> position, trades |-> trades, equity_curve |-> equity_curve,
     s_bars |-> s_bars, s_df |-> s_df, strat |-> strat]

\* the fields of the second BacktestEngine and TurtleLikeStrategy, newly
\* constructed
FreshPair ==
    [position |-> FlatPosition, trades |-> <<>>, equity_curve |-> <<>>,
     s_bars |-> <<>>, s_df |-> None, strat |-> FlatStrat]

\* a strategy and an engine have been constructed
InitReplay ==
    /\ cfg \in { c \in ReplayConfigs : EngineConfigOk(c) }
    /\ params \in { Some(p) : p \in { q \in TurtleParamSets : Validate(q) } }
    /\ position = FlatPosition
    /\ trades = <<>>
    /\ equity_curve = <<>>
    /\ s_bars = <<>>
    /\ s_df = None
    /\ strat = FlatStrat
    /\ pc = "idle"
    /\ df = <<>>
    /\ columns = {}
    /\ i = 0
    /\ capital = 0
    /\ order = NoOrder
    /\ result = None
    /\ s_pc = "ready"
    /\ signal = NoOrder
    /\ evaluated = <<>>
    /\ replay = [run |-> 1, orders |-> <<>>, first |-> None]
    /\ grid = NoGrid
    /\ store = NoStore
    /\ http = NoHttp

\* engine.run(strategy, df) is called; the second run is given the df of
\* the first
ReplayStart ==
    /\ pc = "idle"
    /\ \E d \in ReplayFrames :
         /\ replay.first # None => d = Val(replay.first).df
         /\ df' = d
         /\ columns' = RequiredColumns
    /\ ValidateDf(columns')
    /\ capital' = cfg.INITIAL_CAPITAL
    /\ i' = 0
    /\ pc' = "loop"
    /\ UNCHANGED <<cfg, position, trades, equity_curve, order, result>>
    /\ UNCHANGED turtleVars
    /\ UNCHANGED <<replay, grid>>
    /\ UNCHANGED ioVars

\* one iteration of the for loop, on_bar being TurtleLikeStrategy.on_bar
ReplayBar ==
    /\ pc = "loop"
    /\ i < Len(df)
    /\ LET bar == RowToBar(Row(df, i))
           s   == OnBar(Val(params), strat, s_bars, s_df, bar)
           r   == ExecuteOrder(s.order, df, i, position, capital, trades)
       IN  /\ BarKeysOk(bar)
           /\ s_bars' = s.bars
           /\ s_df' = s.df
           /\ strat' = s.strat
           /\ signal' = s.order
           /\ evaluated' = s.evaluated
           /\ order' = s.order
           /\ position' = r.position
           /\ capital' = r.capital
           /\ trades' = r.trades
           /\ equity_curve' =
                IF r.snapshot
                THEN Append(equity_curve,
                            EquityPoint(df, i, r.capital, r.position))
                ELSE equity_curve
           /\ replay' = [replay EXCEPT !.orders = Append(@, s.order)]
    /\ i' = i + 1
    /\ UNCHANGED <<cfg, pc, df, columns, result, params, s_pc, grid>>
    /\ UNCHANGED ioVars

\* the loop is over: run returns its dict
ReplayReturn ==
    /\ pc = "loop"
    /\ i = Len(df)
    /\ pc' = "done"
    /\ result' = Some([trades |-> trades, equity_curve |-> equity_curve,
                       final_equity |-> capital, nb_trades |-> Len(trades),
                       symbol |-> "XAUUSD",
                       execution_timing |-> cfg.EXECUTION_TIMING,
                       slippage_abs |-> cfg.SLIPPAGE_ABS,
                       commission_fixed |-> cfg.COMMISSION_FIXED])
    /\ UNCHANGED <<cfg, position, trades, equity_curve, df, columns, i,
                   capital, order>>
    /\ UNCHANGED turtleVars
    /\ UNCHANGED <<replay, grid>>
    /\ UNCHANGED ioVars

\* the caller keeps what the first run produced and constructs a second
\* strategy and a second engine from the same parameters
ReplayAgain ==
    /\ pc = "done"
    /\ replay.run = 1
    /\ replay' = [run |-> 2, orders |-> <<>>,
                  first |-> Some([df |-> df, orders |-> replay.orders,
                                  trades |-> Val(result).trades,
                                  equity_curve |-> Val(result).equity_curve,
                                  final_equity |-> Val(result).final_equity])]
    /\ position' = FreshPair.position
    /\ trades' = FreshPair.trades
    /\ equity_curve' = FreshPair.equity_curve
    /\ s_bars' = FreshPair.s_bars
    /\ s_df' = FreshPair.s_df
    /\ strat' = FreshPair.strat
    /\ pc' = "idle"
    /\ df' = <<>>
    /\ columns' = {}
    /\ i' = 0
    /\ capital' = 0
    /\ order' = NoOrder
    /\ result' = None
    /\ signal' = NoOrder
    /\ evaluated' = <<>>
    /\ UNCHANGED <<cfg, params, s_pc, grid>>
    /\ UNCHANGED ioVars

NextReplay == ReplayStart \/ ReplayBar \/ ReplayReturn \/ ReplayAgain

SpecReplay == InitReplay /\ [][NextReplay]_vars

-----------------------------------------------------------------------------
(* optimize/gridsearch.py : product_dict, run_grid *)

MaxCandidates == 2
MaxCombos == 4

\* itertools.product(*vals): the tuples in order, the first list varying
\* slowest
RECURSIVE Flatten(_)
Flatten(ss) == IF ss = <<>> THEN <<>> ELSE Head(ss) \o Flatten(Tail(ss))

RECURSIVE Product(_)
Product(vals) ==
    IF vals = <<>> THEN << <<>> >>
    ELSE LET head == Head(vals)
             rest == Product(Tail(vals))
         IN  Flatten([a \in 1..Len(head) |->
                        [b \in 1..Len(rest) |-> <<head[a]>> \o rest[b]]])

\* product_dict.  param_grid, a dict in insertion order, is the sequence of
\* its items [name, values]; a combo is the dict {k: v for k, v in zip(keys,
\* tup)}
ProductDict(param_grid) ==
    LET keys == [k \in 1..Len(param_grid) |-> param_grid[k].name]
        vals == [k \in 1..Len(param_grid) |-> param_grid[k].values]
        tups == Product(vals)
    IN  [n \in 1..Len(tups) |->
            [name \in {keys[k] : k \in 1..Len(keys)} |->
                tups[n][CHOOSE k \in 1..Len(keys) : keys[k] = name]]]

\* the number of tuples itertools.product yields for a grid
RECURSIVE ProductLen(_)
ProductLen(param_grid) ==
    IF param_grid = <<>> THEN 1
    ELSE Len(Head(param_grid).values) * ProductLen(Tail(param_grid))

\* sort_values("score", ascending=False).reset_index(drop=True) with the
\* default sort kind, which is not a stable one: every arrangement of the
\* rows by non-increasing score is a possible outcome
SortValues(rows) ==
    LET n == Len(rows)
    IN  { [k \in 1..n |-> rows[perm[k]]] :
            perm \in { f \in [1..n -> 1..n] :
                         /\ \A a, b \in 1..n : a # b => f[a] # f[b]
                         /\ \A a, b \in 1..n :
                               a < b => rows[f[a]].score >= rows[f[b]].score } }

\* grids run_grid is called with: up to two names, each with a list of up
\* to MaxCandidates candidates (repeats and the empty list included), that
\* expand into at most MaxCombos combos
GridNames == {"A", "B"}

GridValues == {1, 2}

GridKeys ==
    { ns \in SeqsUpTo(GridNames, Cardinality(GridNames)) :
        \A a, b \in 1..Len(ns) : a # b => ns[a] # ns[b] }

ParamGrids ==
    { g \in UNION { { [k \in 1..Len(ns) |->
                          [name |-> ns[k], values |-> f[k]]] :
                       f \in [1..Len(ns) ->
                                SeqsUpTo(GridValues, MaxCandidates)] } :
                    ns \in GridKeys } :
        ProductLen(g) <= MaxCombos }

\* the scores a scorer gives
GridScores == {0, 1}

\* run_grid is about to be called with a param_grid
InitGrid ==
    /\ grid \in { [pc |-> "idle", param_grid |-> g, combos |-> <<>>,
                    rows |-> <<>>, out |-> None] : g \in ParamGrids }
    /\ cfg = None
    /\ position = FlatPosition
    /\ trades = <<>>
    /\ equity_curve = <<>>
    /\ pc = "idle"
    /\ df = <<>>
    /\ columns = {}
    /\ i = 0
    /\ capital = 0
    /\ order = NoOrder
    /\ result = None
    /\ params = None
    /\ s_pc = "ready"
    /\ s_bars = <<>>
    /\ s_df = None
    /\ strat = FlatStrat
    /\ signal = NoOrder
    /\ evaluated = <<>>
    /\ replay = NoReplay
    /\ store = NoStore
    /\ http = NoHttp

\* combos = product_dict(param_grid); rows = []
GridExpand ==
    /\ grid.pc = "idle"
    /\ grid' = [grid EXCEPT !.pc = "loop",
                            !.combos = ProductDict(grid.param_grid),
                            !.rows = <<>>]
    /\ UNCHANGED <<engineVars, turtleVars, replay>>
    /\ UNCHANGED ioVars

\* one iteration of the loop over combos: a strategy and an engine are made
\* for the combo, the backtest is run and scored, and the row is appended.
\* member is the loop's counter i
GridMember ==
    /\ grid.pc = "loop"
    /\ Len(grid.rows) < Len(grid.combos)
    /\ \E score \in GridScores :
         grid' = [grid EXCEPT
                    !.rows = Append(@, [member |-> Len(grid.rows) + 1,
                                        params |-> grid.combos[Len(grid.rows) + 1],
                                        score  |-> score])]
    /\ UNCHANGED <<engineVars, turtleVars, replay>>
    /\ UNCHANGED ioVars

\* the loop is over: the rows are sorted by score and returned
GridReturn ==
    /\ grid.pc = "loop"
    /\ Len(grid.rows) = Len(grid.combos)
    /\ grid.rows # <<>>
    /\ \E out \in SortValues(grid.rows) :
         grid' = [grid EXCEPT !.pc = "done", !.out = Some(out)]
    /\ UNCHANGED <<engineVars, turtleVars, replay>>
    /\ UNCHANGED ioVars

\* the loop is over without a row: pd.DataFrame([]) has no column "score"
\* and sort_values raises KeyError
GridRaises ==
    /\ grid.pc = "loop"
    /\ Len(grid.rows) = Len(grid.combos)
    /\ grid.rows = <<>>
    /\ grid' = [grid EXCEPT !.pc = "raised"]
    /\ UNCHANGED <<engineVars, turtleVars, replay>>
    /\ UNCHANGED ioVars

NextGrid == GridExpand \/ GridMember \/ GridReturn \/ GridRaises

SpecGrid == InitGrid /\ [][NextGrid]_vars

-----------------------------------------------------------------------------
(* backtest/metrics.py : compute_trade_stats, compute_equity_stats.  A      *)
(* float that is a quotient of two integers is the fraction [num, den] in    *)
(* lowest terms with den > 0.                                                *)

RECURSIVE Gcd(_, _)
Gcd(a, b) == IF b = 0 THEN a ELSE Gcd(b, a % b)

\* the float num / den, for den > 0
Frac(num, den) ==
    IF num = 0 THEN [num |-> 0, den |-> 1]
    ELSE LET g == Gcd(Abs(num), den)
         IN  [num |-> num \div g, den |-> den \div g]

ZeroFrac == [num |-> 0, den |-> 1]

FracLess(x, y) == x.num * y.den < y.num * x.den

RECURSIVE SumSeq(_)
SumSeq(s) == IF s = <<>> THEN 0 ELSE Head(s) + SumSeq(Tail(s))

\* compute_trade_stats
ComputeTradeStats(ledger) ==
    IF ledger = <<>>
    THEN [nb_trades |-> 0, hit_ratio |-> ZeroFrac, avg_win |-> ZeroFrac,
          avg_loss |-> ZeroFrac, profit_factor |-> ZeroFrac, total_pnl |-> 0]
    ELSE LET pnls   == [k \in 1..Len(ledger) |-> ledger[k].pnl]
             wins   == SelectSeq(pnls, LAMBDA p : p > 0)
             losses == SelectSeq(pnls, LAMBDA p : p < 0)
             nb     == Len(ledger)
         IN  [nb_trades |-> nb,
              hit_ratio |-> Frac(Len(wins), nb),
              avg_win   |-> IF wins # <<>>
                            THEN Frac(SumSeq(wins), Len(wins)) ELSE ZeroFrac,
              avg_loss  |-> IF losses # <<>>
                            THEN Frac(SumSeq(losses), Len(losses))
                            ELSE ZeroFrac,
              profit_factor |-> IF losses # <<>>
                                THEN Frac(SumSeq(wins), Abs(SumSeq(losses)))
                                ELSE [inf |-> TRUE],
              total_pnl |-> SumSeq(pnls)]

\* the "time" values are half a day apart: Timedelta.days of the span
\* between two of them
TimePerDay == 20

Days(t_first, t_last) == (t_last - t_first) \div TimePerDay

\* (end_eq / start_eq) ** (1.0 / years) exceeds the largest float, and the
\* Python power raises OverflowError.  years = max(days / 365.25, 1e-9); the
\* largest float is about exp(709.78).  With days = 0 the exponent is 1e9
\* and the power overflows from a ratio of 1 + 7.1e-7 on; with days >= 1 the
\* exponent is 365.25 / days and it overflows from a ratio of about
\* 6.98 ** days on.  The two tests are exact except for ratios between
\* 1 + 7.0e-7 and 1 + 8.0e-7, and between 6.98 ** days and 7 ** days.
PowOverflows(start_eq, end_eq, days) ==
    IF days = 0
    THEN end_eq > start_eq /\ (end_eq - start_eq) * 1250000 >= start_eq
    ELSE end_eq >= Pow(7, days) * start_eq

\* the float (end_eq / start_eq) ** (1.0 / years) - 1.0, kept as the ratio
\* and the days it is computed from; 1.0 ** x - 1.0 is 0.0
Cagr(start_eq, end_eq, days) ==
    IF end_eq = start_eq THEN [ratio |-> Frac(1, 1), days |-> 0]
    ELSE [ratio |-> Frac(end_eq, start_eq), days |-> days]

ZeroCagr == [ratio |-> [num |-> 1, den |-> 1], days |-> 0]

\* cummax of the equity column at row t
RECURSIVE CumMax(_, _)
CumMax(eq, t) == IF t = 1 THEN eq[1] ELSE Max(eq[t], CumMax(eq, t - 1))

\* min of equity / cummax - 1.0 over the rows up to t (equity > 0)
RECURSIVE MinDrawdown(_, _)
MinDrawdown(eq, t) ==
    LET here == Frac(eq[t] - CumMax(eq, t), CumMax(eq, t))
    IN  IF t = 1 THEN here
        ELSE LET before == MinDrawdown(eq, t - 1)
             IN  IF FracLess(here, before) THEN here ELSE before

\* the Sharpe ratio is 0.0 when the returns have no spread, which is when
\* the equity is constant; otherwise it is a float determined by the equity
\* column, kept as that column
SharpeOf(eq) ==
    IF \A t \in 1..Len(eq) : eq[t] = eq[1] THEN [zero |-> TRUE]
    ELSE [zero |-> FALSE, equity |-> eq]

\* compute_equity_stats: the exception it raises, or None, and the stats
ComputeEquityStats(curve) ==
    LET zeros == [error |-> None, CAGR |-> ZeroCagr, MaxDD |-> ZeroFrac,
                  Sharpe |-> [zero |-> TRUE]]
    IN
    IF curve = <<>> THEN zeros
    ELSE IF Len(curve) < 2 THEN zeros
    ELSE
    LET eq       == [t \in 1..Len(curve) |-> curve[t].equity]
        max_dd   == MinDrawdown(eq, Len(eq))
        start_eq == eq[1]
        end_eq   == eq[Len(eq)]
        days     == Days(curve[1].time, curve[Len(curve)].time)
    IN  IF start_eq > 0 /\ PowOverflows(start_eq, end_eq, days)
        THEN [error |-> Some("OverflowError"), CAGR |-> ZeroCagr,
              MaxDD |-> max_dd, Sharpe |-> [zero |-> TRUE]]
        ELSE [error |-> None,
              CAGR |-> IF start_eq > 0 THEN Cagr(start_eq, end_eq, days)
                       ELSE ZeroCagr,
              MaxDD |-> max_dd,
              Sharpe |-> SharpeOf(eq)]

ZeroScore == [zero |-> TRUE]

\* the default score of run_grid: CAGR / dd if dd > 0 else 0.0, with
\* dd = abs(MaxDD); 0.0 / dd is 0.0
DefaultScore(estats) ==
    IF estats.MaxDD.num # 0 /\ estats.CAGR # ZeroCagr
    THEN [zero |-> FALSE, cagr |-> estats.CAGR,
          dd |-> Frac(Abs(estats.MaxDD.num), estats.MaxDD.den)]
    ELSE ZeroScore

\* the sign of a score: that of CAGR, which is that of end_eq - start_eq
ScoreSign(score) ==
    IF score.zero THEN 0
    ELSE IF score.cagr.ratio.num > score.cagr.ratio.den THEN 1 ELSE -1

-----------------------------------------------------------------------------
(* run_grid with the backtests it runs: one strategy and one engine per     *)
(* member, the stats and the score of each, the sort; and a second call of   *)
(* run_grid on the same df and engine_cfg                                     *)

MaxSweepBars == 3

\* the strategies make_strategy builds (BaseStrategy): one that, from the
\* ParamSet {SIDE, WINDOW}, enters SIDE on the WINDOW-th bar it receives and
\* exits on the bar after; its constructor rejects a window below 1
MakeStrategyOk(p) == p.WINDOW >= 1

\* on_bar of that strategy for the n-th bar it receives
SweepOnBar(p, n) ==
    IF n = p.WINDOW
    THEN [action |-> "ENTER", side |-> p.SIDE, qty |-> 10]
    ELSE IF n = p.WINDOW + 1
    THEN [action |-> "EXIT", reason |-> "TIME"]
    ELSE NoOrder

\* the grids of a sweep: SIDE and WINDOW with their candidate lists
SweepSideLists ==
    { <<"LONG">>, <<"LONG", "SHORT">>, <<"SHORT", "LONG">> }

SweepWindowLists ==
    { <<1>>, <<9>>, <<1, 9>>, <<2, 1>>, <<0, 1>>, <<1, 0>> }

SweepGrids ==
    { << [name |-> "SIDE", values |-> sides],
         [name |-> "WINDOW", values |-> windows] >> :
        sides \in SweepSideLists, windows \in SweepWindowLists }

\* the candidate lists of a grid in reverse order
ReversedGrid(g) ==
    [k \in 1..Len(g) |->
        [name |-> g[k].name,
         values |-> [c \in 1..Len(g[k].values) |->
                        g[k].values[Len(g[k].values) + 1 - c]]]]

\* the grid of the first ParamSet alone
FirstOnlyGrid(g) ==
    [k \in 1..Len(g) |-> [name |-> g[k].name, values |-> <<g[k].values[1]>>]]

\* the grids of the second call: the same grid, the same ParamSets in
\* another order, one of them alone
SecondGrids(g) == {g, ReversedGrid(g), FirstOnlyGrid(g)}

SweepConfigs ==
    { c \in EngineConfigs : c.SLIPPAGE_ABS = 0 /\ c.ALLOW_SHORT }

SweepFrames == { MakeDf(s) : s \in SeqsUpTo(BarShapes, MaxSweepBars) }

\* BacktestEngine sharing the fields of the engine of the member before
FreshEngine_shared ==
    [position |-> position, trades |-> trades, equity_curve |-> equity_curve]

\* BacktestEngine(engine_cfg): the fields __init__ sets
FreshEngine ==
    [position |-> FlatPosition, trades |-> <<>>, equity_curve |-> <<>>]

\* a score is certainly below another: its sign is.  Two different scores
\* of the same sign are not compared here, and the sort may leave them in
\* either order.
ScoreBelow(x, y) == ScoreSign(x) < ScoreSign(y)

\* sort_values("score", ascending=False).reset_index(drop=True) on the rows
\* of the members: see SortValues
SortRows(rows) ==
    LET n == Len(rows)
    IN  { [k \in 1..n |-> rows[perm[k]]] :
            perm \in { f \in [1..n -> 1..n] :
                         /\ \A a, b \in 1..n : a # b => f[a] # f[b]
                         /\ \A a, b \in 1..n :
                               a < b => ~ScoreBelow(rows[f[a]].score,
                                                    rows[f[b]].score) } }

\* run_grid is about to be called for the first time
InitSweep ==
    /\ cfg \in { c \in SweepConfigs : EngineConfigOk(c) }
    /\ df \in SweepFrames
    /\ columns = RequiredColumns
    /\ grid \in { [pc |-> "idle", call |-> 1, param_grid |-> g,
                    combos |-> <<>>, rows |-> <<>>, out |-> None,
                    error |-> None, first |-> None] : g \in SweepGrids }
    /\ position = FlatPosition
    /\ trades = <<>>
    /\ equity_curve = <<>>
    /\ pc = "idle"
    /\ i = 0
    /\ capital = 0
    /\ order = NoOrder
    /\ result = None
    /\ params = None
    /\ s_pc = "ready"
    /\ s_bars = <<>>
    /\ s_df = None
    /\ strat = FlatStrat
    /\ signal = NoOrder
    /\ evaluated = <<>>
    /\ replay = NoReplay
    /\ store = NoStore
    /\ http = NoHttp

\* combos = product_dict(param_grid); rows = []
SweepExpand ==
    /\ grid.pc = "idle"
    /\ grid' = [grid EXCEPT !.pc = "loop",
                            !.combos = ProductDict(grid.param_grid),
                            !.rows = <<>>]
    /\ UNCHANGED <<engineVars, turtleVars, replay>>
    /\ UNCHANGED ioVars

\* the ParamSet of the member the loop is at
SweepMember == grid.combos[Len(grid.rows) + 1]

\* the loop takes the next ParamSet: make_strategy(p), BacktestEngine(
\* engine_cfg), and engine.run starts (_validate_df passes)
SweepMemberStart ==
    /\ grid.pc = "loop"
    /\ pc \in {"idle", "done"}
    /\ Len(grid.rows) < Len(grid.combos)
    /\ MakeStrategyOk(SweepMember)
    /\ params' = Some(SweepMember)
    /\ s_bars' = <<>>
    /\ position' = FreshEngine.position
    /\ trades' = FreshEngine.trades
    /\ equity_curve' = FreshEngine.equity_curve
    /\ ValidateDf(columns)
    /\ capital' = cfg.INITIAL_CAPITAL
    /\ i' = 0
    /\ pc' = "loop"
    /\ UNCHANGED <<cfg, df, columns, order, result, s_pc, s_df, strat,
                   signal, evaluated, replay, grid>>
    /\ UNCHANGED ioVars

\* make_strategy(p) raises: nothing catches it and run_grid ends with it
SweepMemberRaises ==
    /\ grid.pc = "loop"
    /\ pc \in {"idle", "done"}
    /\ Len(grid.rows) < Len(grid.combos)
    /\ ~MakeStrategyOk(SweepMember)
    /\ grid' = [grid EXCEPT !.pc = "raised", !.error = Some("ValueError")]
    /\ UNCHANGED <<engineVars, turtleVars, replay>>
    /\ UNCHANGED ioVars

\* one iteration of the for loop of engine.run
SweepBar ==
    /\ pc = "loop"
    /\ i < Len(df)
    /\ LET o == SweepOnBar(Val(params), Len(s_bars) + 1)
           r == ExecuteOrder(o, df, i, position, capital, trades)
       IN  /\ s_bars' = Append(s_bars, RowToBar(Row(df, i)))
           /\ order' = o
           /\ signal' = o
           /\ position' = r.position
           /\ capital' = r.capital
           /\ trades' = r.trades
           /\ equity_curve' =
                IF r.snapshot
                THEN Append(equity_curve,
                            EquityPoint(df, i, r.capital, r.position))
                ELSE equity_curve
    /\ i' = i + 1
    /\ UNCHANGED <<cfg, pc, df, columns, result, params, s_pc, s_df, strat,
                   evaluated, replay, grid>>
    /\ UNCHANGED ioVars

\* the dict engine.run returns
SweepResult ==
    [trades |-> trades, equity_curve |-> equity_curve,
     final_equity |-> capital, nb_trades |-> Len(trades),
     symbol |-> "XAUUSD", execution_timing |-> cfg.EXECUTION_TIMING,
     slippage_abs |-> cfg.SLIPPAGE_ABS,
     commission_fixed |-> cfg.COMMISSION_FIXED]

\* engine.run returns; the stats and the default score are computed and the
\* row is appended.  member is the loop's counter i; trades and equity_curve
\* are the result the row was computed from
SweepMemberDone ==
    /\ pc = "loop"
    /\ i = Len(df)
    /\ LET tstats == ComputeTradeStats(trades)
           estats == ComputeEquityStats(equity_curve)
       IN  /\ estats.error = None
           /\ grid' = [grid EXCEPT !.rows = Append(@,
                 [member |-> Len(grid.rows) + 1,
                  params |-> SweepMember,
                  nb_trades |-> tstats.nb_trades,
                  hit_ratio |-> tstats.hit_ratio,
                  profit_factor |-> tstats.profit_factor,
                  CAGR |-> estats.CAGR,
                  MaxDD |-> estats.MaxDD,
                  Sharpe |-> estats.Sharpe,
                  final_equity |-> capital,
                  score |-> DefaultScore(estats),
                  trades |-> trades,
                  equity_curve |-> equity_curve])]
    /\ result' = Some(SweepResult)
    /\ pc' = "done"
    /\ UNCHANGED <<cfg, position, trades, equity_curve, df, columns, i,
                   capital, order>>
    /\ UNCHANGED <<turtleVars, replay>>
    /\ UNCHANGED ioVars

\* engine.run returns and compute_equity_stats raises: nothing catches it
\* and run_grid ends with it
SweepStatsRaise ==
    /\ pc = "loop"
    /\ i = Len(df)
    /\ ComputeEquityStats(equity_curve).error # None
    /\ grid' = [grid EXCEPT !.pc = "raised",
                            !.error = ComputeEquityStats(equity_curve).error]
    /\ result' = Some(SweepResult)
    /\ pc' = "done"
    /\ UNCHANGED <<cfg, position, trades, equity_curve, df, columns, i,
                   capital, order>>
    /\ UNCHANGED <<turtleVars, replay>>
    /\ UNCHANGED ioVars

\* the loop is over: the rows are sorted by score and returned.  The sort is
\* a function of the rows: rows equal to those of the first call come out
\* as they did then
SweepReturn ==
    /\ grid.pc = "loop"
    /\ pc \in {"idle", "done"}
    /\ Len(grid.rows) = Len(grid.combos)
    /\ grid.rows # <<>>
    /\ \E out \in SortRows(grid.rows) :
         /\ (grid.first # None /\ Val(grid.first).rows = grid.rows)
                => out = Val(grid.first).out
         /\ grid' = [grid EXCEPT !.pc = "done", !.out = Some(out)]
    /\ UNCHANGED <<engineVars, turtleVars, replay>>
    /\ UNCHANGED ioVars

\* the caller keeps the table and calls run_grid again with the same df and
\* engine_cfg
SweepAgain ==
    /\ grid.pc = "done"
    /\ grid.call = 1
    /\ \E g \in SecondGrids(grid.param_grid) :
         grid' = [pc |-> "idle", call |-> 2, param_grid |-> g,
                  combos |-> <<>>, rows |-> <<>>, out |-> None,
                  error |-> None,
                  first |-> Some([param_grid |-> grid.param_grid,
                                  rows |-> grid.rows,
                                  out |-> Val(grid.out)])]
    /\ UNCHANGED <<engineVars, turtleVars, replay>>
    /\ UNCHANGED ioVars

NextSweep ==
    \/ SweepExpand \/ SweepMemberStart \/ SweepMemberRaises \/ SweepBar
    \/ SweepMemberDone \/ SweepStatsRaise \/ SweepReturn \/ SweepAgain

SpecSweep == InitSweep /\ [][NextSweep]_vars

-----------------------------------------------------------------------------
(* Missing bar data: BacktestEngine.run on a df that may lack a column, and  *)
(* TurtleLikeStrategy.on_bar called by hand with a bar that may lack a key    *)

MaxDataBars == 3

\* the bars on_bar may be given as its k-th, with those that lack one of the
\* required keys
BrokenBars(k) ==
    { [key \in (DOMAIN bar) \ {missing} |-> bar[key]] :
        bar \in BarsAt(k), missing \in RequiredKeys }

\* the column sets of the df handed to run: complete, with volume, or
\* lacking one required column
DataColumns ==
    {RequiredColumns, RequiredColumns \cup {"volume"}}
        \cup { (RequiredColumns \cup {"volume"}) \ {missing} :
                 missing \in RequiredColumns }

\* the df handed to run
DataRunFrames == { MakeDf(s) : s \in SeqsUpTo(TurtleShapes, MaxDataBars) }

\* a strategy and an engine have been constructed
InitData ==
    /\ cfg \in { c \in ReplayConfigs : EngineConfigOk(c) }
    /\ params \in { Some(p) : p \in { q \in TurtleParamSets : Validate(q) } }
    /\ position = FlatPosition
    /\ trades = <<>>
    /\ equity_curve = <<>>
    /\ s_bars = <<>>
    /\ s_df = None
    /\ strat = FlatStrat
    /\ pc = "idle"
    /\ df = <<>>
    /\ columns = {}
    /\ i = 0
    /\ capital = 0
    /\ order = NoOrder
    /\ result = None
    /\ s_pc = "ready"
    /\ signal = NoOrder
    /\ evaluated = <<>>
    /\ replay = [run |-> 1, orders |-> <<>>, first |-> None]
    /\ grid = NoGrid
    /\ store = NoStore
    /\ http = NoHttp

\* engine.run(strategy, df) is called with the new strategy: _validate_df
\* passes
DataRunStart ==
    /\ pc = "idle"
    /\ s_pc = "ready"
    /\ s_bars = <<>>
    /\ \E d \in DataRunFrames, cols \in DataColumns :
         /\ df' = d
         /\ columns' = cols
    /\ ValidateDf(columns')
    /\ capital' = cfg.INITIAL_CAPITAL
    /\ i' = 0
    /\ pc' = "loop"
    /\ UNCHANGED <<cfg, position, trades, equity_curve, order, result>>
    /\ UNCHANGED turtleVars
    /\ UNCHANGED <<replay, grid>>
    /\ UNCHANGED ioVars

\* engine.run(strategy, df): _validate_df raises ValueError before the loop
DataRunRaises ==
    /\ pc = "idle"
    /\ \E d \in DataRunFrames, cols \in DataColumns :
         /\ Len(d) = 1
         /\ df' = d
         /\ columns' = cols
    /\ ~ValidateDf(columns')
    /\ pc' = "raised"
    /\ UNCHANGED <<cfg, position, trades, equity_curve, i, capital, order,
                   result>>
    /\ UNCHANGED turtleVars
    /\ UNCHANGED <<replay, grid>>
    /\ UNCHANGED ioVars

\* on_bar(bar) called by hand on a strategy no engine is running: it returns
DataOnBar ==
    /\ pc = "idle"
    /\ s_pc = "ready"
    /\ Len(s_bars) < MaxDataBars
    /\ \E bar \in BarsAt(Len(s_bars)) \cup BrokenBars(Len(s_bars)) :
         LET r == OnBar(Val(params), strat, s_bars, s_df, bar)
         IN  /\ BarKeysOk(bar)
             /\ s_bars' = r.bars
             /\ s_df' = r.df
             /\ strat' = r.strat
             /\ signal' = r.order
             /\ evaluated' = r.evaluated
    /\ UNCHANGED <<params, s_pc>>
    /\ UNCHANGED engineVars
    /\ UNCHANGED <<replay, grid>>
    /\ UNCHANGED ioVars

\* on_bar(bar) called by hand: _append_bar raises KeyError at its first
\* statement
DataOnBarRaises ==
    /\ pc = "idle"
    /\ s_pc = "ready"
    /\ Len(s_bars) < MaxDataBars
    /\ \E bar \in BarsAt(Len(s_bars)) \cup BrokenBars(Len(s_bars)) :
         ~BarKeysOk(bar)
    /\ s_pc' = "raised"
    /\ UNCHANGED <<params, s_bars, s_df, strat, signal, evaluated>>
    /\ UNCHANGED engineVars
    /\ UNCHANGED <<replay, grid>>
    /\ UNCHANGED ioVars

NextData ==
    \/ DataRunStart \/ DataRunRaises \/ ReplayBar \/ ReplayReturn
    \/ DataOnBar \/ DataOnBarRaises

SpecData == InitData /\ [][NextData]_vars

-----------------------------------------------------------------------------
(* TurtleLikeStrategy(params): the constructor, for parameter sets that       *)
(* validate() accepts and for sets it rejects, and on_bar afterwards          *)

MaxConstructBars == 2

\* TurtleParams() with the defaults of the dataclass; quantities and money
\* are on the scale of BaseParams, the windows, counts and flags are the
\* defaults themselves
DefaultParams ==
    [BaseParams EXCEPT !.MAX_LEVERAGE = 2, !.ATR_LEN = 20,
                       !.EMA_TREND_LEN = 200, !.USE_TREND_FILTER = TRUE,
                       !.DONCHIAN_ENTRY_X = 20, !.DONCHIAN_EXIT_Y = 20,
                       !.PYRAMID_UNITS = 0, !.STRICT_VALIDATION = TRUE]

\* the parameter sets handed to the constructor: the defaults, sets that
\* are in range, and sets with one parameter out of range, each with and
\* without strict validation
ConstructParamSets ==
    LET variants ==
          { BaseParams,
            DefaultParams,
            [BaseParams EXCEPT !.PYRAMID_UNITS = 0],
            [BaseParams EXCEPT !.PYRAMID_UNITS = 0 - 1],
            [BaseParams EXCEPT !.RISK_PER_TRADE = 0],
            [BaseParams EXCEPT !.STOP_K = 0],
            [BaseParams EXCEPT !.TRAIL_K = 0 - 1],
            [BaseParams EXCEPT !.DONCHIAN_ENTRY_X = 1],
            [BaseParams EXCEPT !.DONCHIAN_EXIT_Y = 1],
            [BaseParams EXCEPT !.ATR_LEN = 0],
            [BaseParams EXCEPT !.EMA_TREND_LEN = 0],
            [BaseParams EXCEPT !.PYRAMID_STEP_ATR = 0],
            [BaseParams EXCEPT !.PYRAMID_STEP_ATR = 0 - 1, !.STOP_K = 2],
            [BaseParams EXCEPT !.MIN_QTY = 31] }
    IN  { [v EXCEPT !.STRICT_VALIDATION = strict] :
            v \in variants, strict \in BOOLEAN }

\* TurtleLikeStrategy(params) is about to be called
InitConstruct ==
    /\ params \in { Some(p) : p \in ConstructParamSets }
    /\ s_pc = "new"
    /\ s_bars = <<>>
    /\ s_df = None
    /\ strat = FlatStrat
    /\ signal = NoOrder
    /\ evaluated = <<>>
    /\ replay = NoReplay
    /\ grid = NoGrid
    /\ cfg = None
    /\ position = FlatPosition
    /\ trades = <<>>
    /\ equity_curve = <<>>
    /\ pc = "idle"
    /\ df = <<>>
    /\ columns = {}
    /\ i = 0
    /\ capital = 0
    /\ order = NoOrder
    /\ result = None
    /\ store = NoStore
    /\ http = NoHttp

\* __init__: validate() returns and the fields are set
Construct ==
    /\ s_pc = "new"
    /\ Validate(Val(params))
    /\ s_pc' = "ready"
    /\ s_bars' = <<>>
    /\ s_df' = None
    /\ strat' = FlatStrat
    /\ UNCHANGED <<params, signal, evaluated>>
    /\ UNCHANGED engineVars
    /\ UNCHANGED <<replay, grid>>
    /\ UNCHANGED ioVars

\* __init__: validate() raises ValueError and no instance exists
ConstructRaises ==
    /\ s_pc = "new"
    /\ ~Validate(Val(params))
    /\ s_pc' = "raised"
    /\ UNCHANGED <<params, s_bars, s_df, strat, signal, evaluated>>
    /\ UNCHANGED engineVars
    /\ UNCHANGED <<replay, grid>>
    /\ UNCHANGED ioVars

\* on_bar(bar) on the instance constructed
ConstructedOnBar ==
    /\ s_pc = "ready"
    /\ Len(s_bars) < MaxConstructBars
    /\ \E bar \in BarsAt(Len(s_bars)) :
         LET r == OnBar(Val(params), strat, s_bars, s_df, bar)
         IN  /\ BarKeysOk(bar)
             /\ s_bars' = r.bars
             /\ s_df' = r.df
             /\ strat' = r.strat
             /\ signal' = r.order
             /\ evaluated' = r.evaluated
    /\ UNCHANGED <<params, s_pc>>
    /\ UNCHANGED engineVars
    /\ UNCHANGED <<replay, grid>>
    /\ UNCHANGED ioVars

NextConstruct == Construct \/ ConstructRaises \/ ConstructedOnBar

SpecConstruct == InitConstruct /\ [][NextConstruct]_vars

-----------------------------------------------------------------------------
(* One BacktestEngine whose run is called twice (SpecRerun): engine.py       *)
(* run, 102-197.  The strategy of the second call is a new object of the    *)
(* same deterministic class, so on the same bars it hands back the orders   *)
(* the first one did; replay.orders records them.  The engine object is the *)
(* same: run assigns capital and the loop index and nothing else before the *)
(* loop, self.position, self.trades and self.equity_curve are as the first  *)
(* call left them.                                                           *)

MaxRerunBars == 2

RerunFrames == { MakeDf(s) : s \in SeqsUpTo(BarShapes, MaxRerunBars) }

\* the first call's return value, as it was when the call returned
ArchivedRun ==
    [df |-> df, orders |-> replay.orders,
     trades |-> Val(result).trades,
     equity_curve |-> Val(result).equity_curve,
     final_equity |-> Val(result).final_equity]

InitRerun ==
    /\ cfg \in { c \in EngineConfigs : EngineConfigOk(c) }
    /\ position = FlatPosition
    /\ trades = <<>>
    /\ equity_curve = <<>>
    /\ pc = "idle"
    /\ df = <<>>
    /\ columns = {}
    /\ i = 0
    /\ capital = 0
    /\ order = NoOrder
    /\ result = None
    /\ params = None
    /\ s_pc = "ready"
    /\ s_bars = <<>>
    /\ s_df = None
    /\ strat = FlatStrat
    /\ signal = NoOrder
    /\ evaluated = <<>>
    /\ replay = [run |-> 1, orders |-> <<>>, first |-> None]
    /\ grid = NoGrid
    /\ store = NoStore
    /\ http = NoHttp

\* run(strategy, df): _validate_df passes, capital = INITIAL_CAPITAL; the
\* second call is given the bars of the first
RerunStart ==
    /\ pc = "idle"
    /\ \E d \in RerunFrames :
         /\ replay.first # None => d = Val(replay.first).df
         /\ df' = d
         /\ columns' = RequiredColumns
    /\ ValidateDf(columns')
    /\ capital' = cfg.INITIAL_CAPITAL
    /\ i' = 0
    /\ pc' = "loop"
    /\ UNCHANGED <<cfg, position, trades, equity_curve, order, result>>
    /\ UNCHANGED turtleVars
    /\ UNCHANGED <<replay, grid>>
    /\ UNCHANGED ioVars

\* one iteration of the for loop; the second call's strategy repeats the
\* orders of the first
RerunBar ==
    /\ pc = "loop"
    /\ i < Len(df)
    /\ \E o \in Orders :
         LET r == ExecuteOrder(o, df, i, position, capital, trades)
         IN  /\ replay.first # None => o = Val(replay.first).orders[i + 1]
             /\ order' = o
             /\ position' = r.position
             /\ capital' = r.capital
             /\ trades' = r.trades
             /\ equity_curve' =
                  IF r.snapshot
                  THEN Append(equity_curve,
                              EquityPoint(df, i, r.capital, r.position))
                  ELSE equity_curve
             /\ replay' = [replay EXCEPT !.orders = Append(@, o)]
    /\ i' = i + 1
    /\ UNCHANGED <<cfg, pc, df, columns, result>>
    /\ UNCHANGED turtleVars
    /\ UNCHANGED grid
    /\ UNCHANGED ioVars

\* the caller keeps what the first call returned and calls run again on the
\* same engine
RerunAgain ==
    /\ pc = "done"
    /\ replay.run = 1
    /\ replay' = [run |-> 2, orders |-> <<>>, first |-> Some(ArchivedRun)]
    /\ pc' = "idle"
    /\ df' = <<>>
    /\ columns' = {}
    /\ i' = 0
    /\ capital' = 0
    /\ order' = NoOrder
    /\ result' = None
    /\ UNCHANGED <<cfg, position, trades, equity_curve>>
    /\ UNCHANGED turtleVars
    /\ UNCHANGED grid
    /\ UNCHANGED ioVars

NextRerun == RerunStart \/ RerunBar \/ RunReturn \/ RerunAgain

SpecRerun == InitRerun /\ [][NextRerun]_vars

-----------------------------------------------------------------------------
(* TurtleLikeStrategy._append_bar and _compute_indicators called one after   *)
(* the other on a growing buffer (SpecIndicators): turtle_like.py 221-255.  *)
(* s_df is self._df: None after an append, the rows with their indicator    *)
(* columns after _compute_indicators.                                       *)

MaxIndicatorBars == 4

InitIndicators ==
    /\ params \in { Some(p) : p \in { q \in TurtleParamSets : Validate(q) } }
    /\ s_pc = "ready"
    /\ s_bars = <<>>
    /\ s_df = None
    /\ strat = FlatStrat
    /\ signal = NoOrder
    /\ evaluated = <<>>
    /\ replay = NoReplay
    /\ grid = NoGrid
    /\ cfg = None
    /\ position = FlatPosition
    /\ trades = <<>>
    /\ equity_curve = <<>>
    /\ pc = "idle"
    /\ df = <<>>
    /\ columns = {}
    /\ i = 0
    /\ capital = 0
    /\ order = NoOrder
    /\ result = None
    /\ store = NoStore
    /\ http = NoHttp

\* _append_bar(bar): the bar joins the buffer, self._df is dropped
AppendBar ==
    /\ s_pc = "ready"
    /\ Len(s_bars) < MaxIndicatorBars
    /\ \E bar \in BarsAt(Len(s_bars)) :
         /\ BarKeysOk(bar)
         /\ s_bars' = Append(s_bars, bar)
    /\ s_df' = None
    /\ UNCHANGED <<params, s_pc, strat, signal, evaluated>>
    /\ UNCHANGED engineVars
    /\ UNCHANGED <<replay, grid>>
    /\ UNCHANGED ioVars

\* _compute_indicators(): returns at once if self._df is there, else builds
\* it from the whole buffer
ComputeIndicatorsCall ==
    /\ s_pc = "ready"
    /\ s_df = None
    /\ s_df' = Some(ComputeIndicators(Val(params), s_bars))
    /\ UNCHANGED <<params, s_pc, s_bars, strat, signal, evaluated>>
    /\ UNCHANGED engineVars
    /\ UNCHANGED <<replay, grid>>
    /\ UNCHANGED ioVars

NextIndicators == AppendBar \/ ComputeIndicatorsCall

SpecIndicators == InitIndicators /\ [][NextIndicators]_vars

-----------------------------------------------------------------------------
(* BacktestEngine.run(TurtleLikeStrategy, df), once, with every engine      *)
(* configuration the strategy can meet (SpecDrive): engine.py 102-197 with  *)
(* turtle_like.py 193-229 as on_bar.                                         *)

MaxDriveBars == 4

\* the engine configurations: both timings, shorts allowed or not
DriveConfigs == { c \in EngineConfigs : c.SLIPPAGE_ABS = 0 }

DriveFrames == { MakeDf(s) : s \in SeqsUpTo(TurtleShapes, MaxDriveBars) }

InitDrive ==
    /\ cfg \in { c \in DriveConfigs : EngineConfigOk(c) }
    /\ params \in { Some(p) : p \in { q \in TurtleParamSets : Validate(q) } }
    /\ position = FlatPosition
    /\ trades = <<>>
    /\ equity_curve = <<>>
    /\ s_bars = <<>>
    /\ s_df = None
    /\ strat = FlatStrat
    /\ pc = "idle"
    /\ df = <<>>
    /\ columns = {}
    /\ i = 0
    /\ capital = 0
    /\ order = NoOrder
    /\ result = None
    /\ s_pc = "ready"
    /\ signal = NoOrder
    /\ evaluated = <<>>
    /\ replay = [run |-> 1, orders |-> <<>>, first |-> None]
    /\ grid = NoGrid
    /\ store = NoStore
    /\ http = NoHttp

\* engine.run(strategy, df) is called
DriveStart ==
    /\ pc = "idle"
    /\ \E d \in DriveFrames :
         /\ df' = d
         /\ columns' = RequiredColumns
    /\ ValidateDf(columns')
    /\ capital' = cfg.INITIAL_CAPITAL
    /\ i' = 0
    /\ pc' = "loop"
    /\ UNCHANGED <<cfg, position, trades, equity_curve, order, result>>
    /\ UNCHANGED turtleVars
    /\ UNCHANGED <<replay, grid>>
    /\ UNCHANGED ioVars

NextDrive == DriveStart \/ ReplayBar \/ ReplayReturn

SpecDrive == InitDrive /\ [][NextDrive]_vars

-----------------------------------------------------------------------------
(* data/store.py : normalize_ohlc_df, validate_ohlc_invariants and           *)
(* write_series_parquet on one series file (SpecStore).  A row is its time, *)
(* high, low and close; close tells rows of the same time apart.  The file  *)
(* is None while it does not exist.                                         *)

MaxStoreRows == 3

\* rows a caller may hand over: two times, two closes, a row whose high is
\* below its low, and a row whose close is NaN
StoreRows ==
    { [time |-> t, high |-> 12, low |-> 8, close |-> Some(c)] :
        t \in 1..2, c \in {9, 11} }
    \cup { [time |-> 2, high |-> 8, low |-> 12, close |-> Some(9)],
           [time |-> 1, high |-> 12, low |-> 8, close |-> None] }

StoreFrames == SeqsUpTo(StoreRows, MaxStoreRows)

StoreModes == {"overwrite", "append", "merge", "update"}

\* sort_values("time") with the default sort kind, which is not a stable
\* one: every arrangement of the rows by non-decreasing time is a possible
\* outcome
SortByTime(rows) ==
    LET n == Len(rows)
    IN  { [k \in 1..n |-> rows[perm[k]]] :
            perm \in { f \in [1..n -> 1..n] :
                         /\ \A a, b \in 1..n : a # b => f[a] # f[b]
                         /\ \A a, b \in 1..n :
                               a < b => rows[f[a]].time <= rows[f[b]].time } }

\* drop_duplicates(subset=["time"], keep="last").reset_index(drop=True)
RECURSIVE DropDuplicatesLast(_)
DropDuplicatesLast(rows) ==
    IF rows = <<>> THEN <<>>
    ELSE IF \E k \in 2..Len(rows) : rows[k].time = rows[1].time
         THEN DropDuplicatesLast(Tail(rows))
         ELSE <<rows[1]>> \o DropDuplicatesLast(Tail(rows))

\* normalize_ohlc_df raises: a row with a NaN among open, high, low, close
\* while LENIENT_DROP_BAD_ROWS is False
NormalizeRaises(rows) == \E k \in 1..Len(rows) : rows[k].close = None

\* normalize_ohlc_df: what it may return when it does not raise
Normalize(rows) == { DropDuplicatesLast(s) : s \in SortByTime(rows) }

\* validate_ohlc_invariants raises: high < low on a row (the time column
\* is increasing after the normalisation)
ValidateRaises(rows) == \E k \in 1..Len(rows) : rows[k].high < rows[k].low

\* write_series_parquet(df, path, mode): every way the call can end.  wrote
\* tells whether the file was replaced, raised which exception ended the
\* call, if any.
WriteOutcomes(rows, mode, file) ==
    IF NormalizeRaises(rows)
    THEN { [raised |-> Some("ValueError"), file |-> file, out |-> None] }
    ELSE UNION {
      IF ValidateRaises(df_n)
      THEN { [raised |-> Some("ValueError"), file |-> file, out |-> None] }
      ELSE IF mode = "merge" /\ file # None
      THEN UNION { { [raised |-> None, file |-> Some(merged),
                      out |-> Some([n |-> Len(merged),
                                    t0 |-> merged[1].time,
                                    t1 |-> merged[Len(merged)].time])] :
                       merged \in { m \in Normalize(existing \o df_n) :
                                      m # <<>> } }
                   \cup
                   { [raised |-> Some("IndexError"), file |-> Some(<<>>),
                      out |-> None] :
                       merged \in { m \in Normalize(existing \o df_n) :
                                      m = <<>> } } :
                   existing \in Normalize(Val(file)) }
      ELSE IF mode = "append" /\ file # None
      THEN { IF df_n = <<>>
             THEN [raised |-> Some("IndexError"), file |-> Some(df_n),
                   out |-> None]
             ELSE [raised |-> None, file |-> Some(df_n),
                   out |-> Some([n |-> Len(df_n), t0 |-> df_n[1].time,
                                 t1 |-> df_n[Len(df_n)].time])] }
      ELSE IF mode \notin {"overwrite", "append", "merge"}
      THEN { [raised |-> Some("ValueError"), file |-> file, out |-> None] }
      ELSE { IF df_n = <<>>
             THEN [raised |-> Some("IndexError"), file |-> Some(df_n),
                   out |-> None]
             ELSE [raised |-> None, file |-> Some(df_n),
                   out |-> Some([n |-> Len(df_n), t0 |-> df_n[1].time,
                                 t1 |-> df_n[Len(df_n)].time])] }
      : df_n \in Normalize(rows) }

\* no file, nothing called yet
InitStore ==
    /\ store = [pc |-> "idle", file |-> None]
    /\ http = NoHttp
    /\ cfg = None
    /\ position = FlatPosition
    /\ trades = <<>>
    /\ equity_curve = <<>>
    /\ pc = "idle"
    /\ df = <<>>
    /\ columns = {}
    /\ i = 0
    /\ capital = 0
    /\ order = NoOrder
    /\ result = None
    /\ params = None
    /\ s_pc = "ready"
    /\ s_bars = <<>>
    /\ s_df = None
    /\ strat = FlatStrat
    /\ signal = NoOrder
    /\ evaluated = <<>>
    /\ replay = NoReplay
    /\ grid = NoGrid

\* normalize_ohlc_df(df) is called on its own
NormalizeCall ==
    /\ store.pc = "idle"
    /\ \E rows \in StoreFrames :
         IF NormalizeRaises(rows)
         THEN store' = [pc |-> "raised", file |-> store.file, call |-> "normalize",
                        arg |-> rows, mode |-> "", before |-> store.file,
                        raised |-> Some("ValueError"), out |-> None]
         ELSE \E n \in Normalize(rows) :
                store' = [pc |-> "returned", file |-> store.file,
                          call |-> "normalize", arg |-> rows, mode |-> "",
                          before |-> store.file, raised |-> None,
                          out |-> Some(n)]
    /\ UNCHANGED http
    /\ UNCHANGED <<engineVars, turtleVars, replay, grid>>

\* write_series_parquet(df, path, mode) is called
WriteSeriesParquet ==
    /\ store.pc = "idle"
    /\ \E rows \in StoreFrames, mode \in StoreModes :
         \E w \in WriteOutcomes(rows, mode, store.file) :
            store' = [pc |-> IF w.raised = None THEN "returned" ELSE "raised",
                      file |-> w.file, call |-> "write", arg |-> rows,
                      mode |-> mode, before |-> store.file,
                      raised |-> w.raised, out |-> w.out]
    /\ UNCHANGED http
    /\ UNCHANGED <<engineVars, turtleVars, replay, grid>>

\* the caller has dealt with what the call gave; the file stays
CallerMovesOn ==
    /\ store.pc \in {"returned", "raised"}
    /\ store' = [pc |-> "idle", file |-> store.file]
    /\ UNCHANGED http
    /\ UNCHANGED <<engineVars, turtleVars, replay, grid>>

NextStore == NormalizeCall \/ WriteSeriesParquet \/ CallerMovesOn

SpecStore == InitStore /\ [][NextStore]_vars

-----------------------------------------------------------------------------
(* api/oanda.py : OandaClient._request, one call (SpecRequest): oanda.py     *)
(* 124-159.  http.attempt is the loop variable, http.responses the          *)
(* responses session.request has given so far, http.sleeps what time.sleep  *)
(* was called with, in quarters of a second (retry_backoff 0.75 is 3).      *)

MaxRetries == 3

\* the status codes a server answers with
Statuses == {200, 302, 400, 404, 429, 500, 501, 502, 503, 504}

\* the Retry-After header of a response: absent, "2", a word, and "sup2",
\* which stands for the one-character value SUPERSCRIPT TWO (U+00B2, the
\* byte B2 of a header read as latin-1)
RetryAfters == {None, Some("2"), Some("soon"), Some("sup2")}

\* whether r.json() parses the body
BodyKinds == {"json", "text"}

RETRY_BACKOFF == 3

\* `r.status_code in (429, 500, 502, 503, 504) and attempt < self.max_retries`
Retriable(status, attempt, max_retries) ==
    status \in {429, 500, 502, 503, 504} /\ attempt < max_retries

\* `ra and ra.isdigit()`: str.isdigit is true of "2" and of SUPERSCRIPT TWO
IsDigit(ra) == ra \in {Some("2"), Some("sup2")}

\* float(ra): 2.0 for "2"; SUPERSCRIPT TWO is no float literal, ValueError
FloatRaises(ra) == ra = Some("sup2")

\* `float(ra) if (ra and ra.isdigit()) else self.retry_backoff * attempt`
SleepFor(ra, attempt) ==
    IF IsDigit(ra) THEN 8 ELSE RETRY_BACKOFF * attempt

\* `return r.json()`, or {"raw": r.text} when the body does not parse
BodyOf(resp) ==
    IF resp.body = "json" THEN [json |-> resp.status]
    ELSE [raw |-> resp.status]

\* OandaClient(max_retries=m) has been constructed
InitRequest ==
    /\ http \in { [pc |-> "idle", max_retries |-> m, attempt |-> 0,
                   responses |-> <<>>, sleeps |-> <<>>, out |-> None,
                   error |-> None] : m \in 0..MaxRetries }
    /\ store = NoStore
    /\ cfg = None
    /\ position = FlatPosition
    /\ trades = <<>>
    /\ equity_curve = <<>>
    /\ pc = "idle"
    /\ df = <<>>
    /\ columns = {}
    /\ i = 0
    /\ capital = 0
    /\ order = NoOrder
    /\ result = None
    /\ params = None
    /\ s_pc = "ready"
    /\ s_bars = <<>>
    /\ s_df = None
    /\ strat = FlatStrat
    /\ signal = NoOrder
    /\ evaluated = <<>>
    /\ replay = NoReplay
    /\ grid = NoGrid

\* _request(method, path) is called: url and data are built, the for loop
\* starts at attempt 1
RequestCall ==
    /\ http.pc = "idle"
    /\ http' = [http EXCEPT !.pc = "loop", !.attempt = 1]
    /\ UNCHANGED store
    /\ UNCHANGED <<engineVars, turtleVars, replay, grid>>

\* one iteration of the for loop: the request is sent, the response is
\* returned, or slept on and retried, or raised; the sleep time is computed
\* before the sleep and float() may raise
RequestAttempt ==
    /\ http.pc = "loop"
    /\ http.attempt <= http.max_retries
    /\ \E status \in Statuses, ra \in RetryAfters, body \in BodyKinds :
         LET resp == [status |-> status, retry_after |-> ra, body |-> body]
             got  == Append(http.responses, resp)
         IN  IF status < 400
             THEN http' = [http EXCEPT !.pc = "returned", !.responses = got,
                                       !.out = Some(BodyOf(resp))]
             ELSE IF Retriable(status, http.attempt, http.max_retries)
             THEN IF IsDigit(ra) /\ FloatRaises(ra)
                  THEN http' = [http EXCEPT
                                  !.pc = "raised", !.responses = got,
                                  !.error = Some([type |-> "ValueError"])]
                  ELSE http' = [http EXCEPT
                                  !.responses = got,
                                  !.sleeps =
                                      Append(@, SleepFor(ra, http.attempt)),
                                  !.attempt = @ + 1]
             ELSE http' = [http EXCEPT
                             !.pc = "raised", !.responses = got,
                             !.error = Some([type |-> "OandaHTTPError",
                                             status |-> status])]
    /\ UNCHANGED store
    /\ UNCHANGED <<engineVars, turtleVars, replay, grid>>

\* the for loop is over without a return or a raise: RuntimeError
RequestExhausted ==
    /\ http.pc = "loop"
    /\ http.attempt > http.max_retries
    /\ http' = [http EXCEPT !.pc = "raised",
                            !.error = Some([type |-> "RuntimeError"])]
    /\ UNCHANGED store
    /\ UNCHANGED <<engineVars, turtleVars, replay, grid>>

NextRequest == RequestCall \/ RequestAttempt \/ RequestExhausted

SpecRequest == InitRequest /\ [][NextRequest]_vars

\* the call is one thread of control: while a step of it can be taken, one
\* is taken (session.request has a timeout, time.sleep ends)
SpecRequestFair == SpecRequest /\ WF_vars(NextRequest)

-----------------------------------------------------------------------------
(* Properties of BacktestEngine.run, under Spec *)

Last(s) == s[Len(s)]

IsEnter(o) == "action" \in DOMAIN o /\ Upper(o.action) = "ENTER"
IsExit(o)  == "action" \in DOMAIN o /\ Upper(o.action) = "EXIT"
SideOf(o)  == Upper(Get(o, "side", ""))

\* a step of the bar loop, and what the bar's order made the engine do
BarStep        == i' = i + 1
ExecEnterLong  == BarStep /\ IsEnter(order') /\ SideOf(order') = "LONG"
ExecEnterShort == BarStep /\ IsEnter(order') /\ SideOf(order') = "SHORT"
                     /\ cfg.ALLOW_SHORT
ExecExit       == BarStep /\ IsExit(order') /\ position.side # "FLAT"

\* the price an order signalled on bar k is to be filled from, and the bar
\* whose time it is to carry, as the execution timing is described
ClaimFillBar(k) ==
    IF cfg.EXECUTION_TIMING = "next_open" /\ k < Len(df) - 1 THEN k + 1 ELSE k
ClaimFillBase(k) ==
    IF cfg.EXECUTION_TIMING = "next_open" /\ k < Len(df) - 1
    THEN Row(df, k + 1).open
    ELSE Row(df, k).close

\* +1 for a Long, -1 for a Short
Dir(side) == IF side = "LONG" THEN 1 ELSE -1

\* mark-to-market value of a position at a close
MarkToMarket(pos, close) ==
    IF pos.side = "FLAT" THEN 0
    ELSE Dir(pos.side) * (close - Val(pos.entry_price)) * pos.qty * cfg.POINT_VALUE

\* C1: after i bars have been processed the equity curve holds exactly i
\* points, the k-th carrying the time of the k-th bar; at the end of run it
\* holds one point per bar of df.
C1_EquityOnePointPerBar ==
    pc \in {"loop", "done"} =>
        /\ Len(equity_curve) = i
        /\ \A k \in 1..Len(equity_curve) :
              equity_curve[k].time = Row(df, k - 1).time

\* C2: every Trade of the ledger has
\* pnl = (X - E) * Q * POINT_VALUE - 2 * C for a Long and
\* pnl = (E - X) * Q * POINT_VALUE - 2 * C for a Short.
C2_RoundTripPnl ==
    \A k \in 1..Len(trades) :
        LET t == trades[k]
        IN  t.pnl = Dir(t.side) * (t.exit_price - t.entry_price) * t.qty
                        * cfg.POINT_VALUE
                    - 2 * cfg.COMMISSION_FIXED

\* the equity point of the bar processed last is in the curve
LastBarHasPoint ==
    /\ pc \in {"loop", "done"}
    /\ i >= 1
    /\ Len(equity_curve) >= 1
    /\ Last(equity_curve).time = Row(df, i - 1).time

C6_PositionWellFormed ==
    /\ position.side \in {"FLAT", "LONG", "SHORT"}
    /\ position.qty >= 0
    /\ (position.side = "FLAT") <=> (position.qty = 0)
    /\ (position.side = "FLAT") <=> (position.entry_price = None)
    /\ (position.side = "FLAT") <=> (position.entry_time = None)
    /\ IsExit(order) => position = FlatPosition

\* C6 witness: an EXIT has just closed a position that an ENTER without a
\* positive qty had opened.
C6_Witness ==
    /\ IsExit(order)
    /\ Len(trades) = 1
    /\ trades[1].qty = cfg.DEFAULT_QTY
    /\ position = FlatPosition

\* C8: the ledger only grows by appending; a bar appends exactly one Trade
\* when its order is an EXIT met by a non-FLAT position, carrying that
\* position's side, qty, entry time and entry price, and appends nothing
\* otherwise; nb_trades of the result is the ledger's length.
C8_LedgerAppendOnly ==
    /\ [][ /\ ExecExit =>
                /\ Len(trades') = Len(trades) + 1
                /\ SubSeq(trades', 1, Len(trades)) = trades
                /\ Last(trades').side = position.side
                /\ Last(trades').qty = position.qty
                /\ Last(trades').entry_time = Val(position.entry_time)
                /\ Last(trades').entry_price = Val(position.entry_price)
           /\ ~ExecExit => trades' = trades ]_vars
    /\ [](pc = "done" =>
            /\ Val(result).nb_trades = Len(trades)
            /\ Val(result).trades = trades)

\* C8 witness: run has returned a ledger of one Trade after an ENTER, an
\* EXIT that closed it and a further EXIT that met a FLAT position.
C8_Witness ==
    /\ pc = "done"
    /\ Len(df) = 3
    /\ Val(result).nb_trades = 1
    /\ IsExit(order)
    /\ trades[1].exit_time < Row(df, 2).time
    /\ trades[1].entry_time < trades[1].exit_time

\* C9: an executed order signalled on bar k is filled from bar k's close and
\* stamped with bar k's time under "close"; under "next_open" it is filled
\* from bar k+1's open and stamped with bar k+1's time, or, on the last bar,
\* from that bar's close and time.  (The fill is the base price moved by the
\* slippage one way or the other.)
C9_FillTiming ==
    [][ LET base == ClaimFillBase(i)
            time == Row(df, ClaimFillBar(i)).time
            near == {base - cfg.SLIPPAGE_ABS, base + cfg.SLIPPAGE_ABS}
        IN  /\ (ExecEnterLong \/ ExecEnterShort) =>
                 /\ Val(position'.entry_price) \in near
                 /\ position'.entry_time = Some(time)
            /\ ExecExit =>
                 /\ Last(trades').exit_price \in near
                 /\ Last(trades').exit_time = time ]_vars

\* C9 witness: under "next_open" an ENTER signalled on the first of three
\* bars was filled at the second bar's open and the EXIT signalled on the
\* last bar was filled at that bar's close, the two prices being different
\* from the closes and opens a "close" run would have used.
C9_Witness ==
    /\ cfg.EXECUTION_TIMING = "next_open"
    /\ cfg.SLIPPAGE_ABS = 0
    /\ pc = "done"
    /\ Len(df) = 3
    /\ Len(trades) = 1
    /\ trades[1].entry_time = Row(df, 1).time
    /\ trades[1].entry_price = Row(df, 1).open
    /\ trades[1].entry_price # Row(df, 0).close
    /\ trades[1].exit_time = Row(df, 2).time
    /\ trades[1].exit_price = Row(df, 2).close
    /\ trades[1].exit_price # Row(df, 2).open

\* the row of df whose time is t
RowAtTime(t) == CHOOSE r \in { df[j] : j \in 1..Len(df) } : r.time = t

\* the base price the entry of a closed Trade was filled from
EntryBase(t) ==
    IF cfg.EXECUTION_TIMING = "next_open"
    THEN RowAtTime(t.entry_time).open
    ELSE RowAtTime(t.entry_time).close

\* C10: ENTER LONG and EXIT SHORT fill at base + SLIPPAGE_ABS, ENTER SHORT
\* and EXIT LONG at base - SLIPPAGE_ABS; so the pnl of every Trade is the pnl
\* of the same round trip without slippage less 2 * S * qty * POINT_VALUE.
C10_SignedSlippage ==
    [][ LET base == ClaimFillBase(i)
            S    == cfg.SLIPPAGE_ABS
        IN  /\ ExecEnterLong  => position'.entry_price = Some(base + S)
            /\ ExecEnterShort => position'.entry_price = Some(base - S)
            /\ ExecExit =>
                 LET t == Last(trades')
                     frictionless ==
                        Dir(t.side) * (base - EntryBase(t)) * t.qty
                            * cfg.POINT_VALUE - cfg.COMMISSION_FIXED
                 IN  /\ t.exit_price = base - Dir(t.side) * S
                     /\ t.pnl = frictionless - 2 * S * t.qty * cfg.POINT_VALUE
      ]_vars

\* C10 witness: with a slippage of one tick a Short of 10 units was closed,
\* 20 below the round trip without slippage.
C10_Witness ==
    /\ cfg.SLIPPAGE_ABS = 1
    /\ Len(trades) = 1
    /\ trades[1].side = "SHORT"
    /\ trades[1].qty = 10
    /\ trades[1].pnl =
          (EntryBase(trades[1]) - (trades[1].exit_price - 1)) * 10
              * cfg.POINT_VALUE - cfg.COMMISSION_FIXED - 20

\* an order the engine ignores: an EXIT while FLAT, an ENTER SHORT while
\* shorts are not allowed, an ENTER whose side is neither LONG nor SHORT
IgnoredOrder ==
    /\ BarStep
    /\ \/ IsExit(order') /\ position.side = "FLAT"
       \/ IsEnter(order') /\ SideOf(order') = "SHORT" /\ ~cfg.ALLOW_SHORT
       \/ IsEnter(order') /\ SideOf(order') \notin {"LONG", "SHORT"}

\* C11: every bar changes the cash by the pnl of the Trade it appends, if
\* any, less COMMISSION_FIXED if it executes an ENTER, and by nothing else;
\* an ignored order changes neither cash nor position nor ledger; and
\* final_equity is the cash after the last bar.  (Summed over the bars:
\* final_equity = INITIAL_CAPITAL + sum of Trade.pnl - COMMISSION_FIXED *
\* number of executed ENTERs.)
C11_CommissionOncePerOrder ==
    [][ /\ BarStep =>
             capital' = capital
                + (IF Len(trades') = Len(trades) + 1
                   THEN Last(trades').pnl ELSE 0)
                - (IF ExecEnterLong \/ ExecEnterShort
                   THEN cfg.COMMISSION_FIXED ELSE 0)
        /\ IgnoredOrder =>
             capital' = capital /\ position' = position /\ trades' = trades
        /\ (pc = "idle" /\ pc' = "loop") => capital' = cfg.INITIAL_CAPITAL
        /\ (pc = "loop" /\ pc' = "done") =>
             Val(result').final_equity = capital ]_vars

\* C11 witness: a finished run that executed an ENTER and an EXIT and then
\* ignored an ENTER of unknown side
C11_Witness ==
    /\ pc = "done"
    /\ Len(df) = 3
    /\ Len(trades) = 1
    /\ IsEnter(order) /\ SideOf(order) = "BOTH"
    /\ Val(result).final_equity
          = cfg.INITIAL_CAPITAL + trades[1].pnl - cfg.COMMISSION_FIXED

\* the engine rejects the order of this bar: an ENTER SHORT while shorts
\* are not allowed
RejectedOrder ==
    BarStep /\ IsEnter(order') /\ SideOf(order') = "SHORT" /\ ~cfg.ALLOW_SHORT

\* what the outputs of run would hold after this bar had on_bar returned
\* nothing
OutputsOfNoOrder ==
    <<trades, Append(equity_curve, [time |-> Row(df, i).time,
                                    equity |-> capital])>>

\* the part of C27 about cash, position and the bars that follow
C27_RejectionChangesNothing ==
    [][RejectedOrder =>
          /\ capital' = capital
          /\ position' = position
          /\ pc' = "loop"]_vars

\* C27: when the engine rejects an order, the rejection is recorded in the
\* run's ledger or output (what run has recorded after the bar differs from
\* what it records for a bar without an order), cash and position are
\* unchanged, and the run goes on with the following bars.
C27_RejectionRecorded ==
    [][RejectedOrder =>
          /\ <<trades', equity_curve'>> # OutputsOfNoOrder
          /\ capital' = capital
          /\ position' = position
          /\ pc' = "loop"]_vars

\* the engine executes an ENTER for the side it already holds
ExecAdd ==
    /\ position.side \in {"LONG", "SHORT"}
    /\ \/ ExecEnterLong /\ position.side = "LONG"
       \/ ExecEnterShort /\ position.side = "SHORT"

\* the qty the engine gives an order: its qty, DEFAULT_QTY if it has none or
\* a non-positive one
QtyOfOrder(o) ==
    IF Get(o, "qty", 0) > 0 THEN o.qty ELSE cfg.DEFAULT_QTY

\* C35: an executed ENTER for the side already held adds the order's qty to
\* the open qty and leaves the entry time of the initial leg, so that the
\* Trade recorded at the exit carries the qty of all the legs.
C35_AddsAccumulate ==
    [][ExecAdd =>
          /\ position'.qty = position.qty + QtyOfOrder(order')
          /\ position'.entry_time = position.entry_time]_vars

\* an order signalled on bar i is filled at a later time than bar i's
FilledLater ==
    /\ BarStep
    /\ (ExecEnterLong \/ ExecEnterShort \/ ExecExit)
    /\ cfg.EXECUTION_TIMING = "next_open"
    /\ i + 1 < Len(df)

\* C38: the equity point recorded for bar i holds only the fills whose fill
\* time is at most the time of bar i: when the order signalled on bar i is
\* filled at the open of bar i + 1, the point of bar i is the cash before
\* that fill, and commission and pnl first show in the point of bar i + 1.
C38_EquityNoLookAhead ==
    [][(FilledLater /\ Len(equity_curve') = Len(equity_curve) + 1) =>
          /\ Last(equity_curve').time = Row(df, i).time
          /\ Last(equity_curve').equity = capital]_vars

\* the part of C38 that holds: a point is stamped with the time of its bar,
\* and with the fill on the bar itself it holds the cash after the fill
C38_SameBarFills ==
    [][(BarStep /\ ~FilledLater /\ Len(equity_curve') = Len(equity_curve) + 1)
          => /\ Last(equity_curve').time = Row(df, i).time
             /\ Last(equity_curve').equity = capital']_vars

-----------------------------------------------------------------------------
(* Properties of TurtleLikeStrategy.on_bar, under SpecTurtle *)

\* the rows _compute_indicators builds from the bars received so far
CurrentDf == ComputeIndicators(Val(params), s_bars)

\* on_bar has received at least the bars it asks for
PastWarmup == Len(s_bars) >= Warmup(Val(params))

\* on_bar has taken a bar in this step
OnBarStep == Len(s_bars') = Len(s_bars) + 1

\* the rows, and the same rows with the ATR of the last one undefined
AtrCases(d) == {d, [d EXCEPT ![Len(d)].atr = None]}

\* strategy positions the three checks are applied to: flat, and open on
\* either side with each kind of stop and of next add price
StratStates ==
    {FlatStrat} \cup
    { [position |-> side, entry_price |-> Some(10), stop_price |-> stop,
       qty |-> 12, added_units |-> units, next_add_price |-> add] :
        side \in {"LONG", "SHORT"},
        stop \in {None, Some(0), Some(8), Some(12)},
        units \in {0, 1},
        add \in {None, Some(8), Some(12)} }

IsPyramid(o)      == IsEnter(o) /\ Get(o, "reason", "") = "PYRAMID"
IsInitialEnter(o) == IsEnter(o) /\ Get(o, "reason", "") # "PYRAMID"

\* C4: on every bar past the warm-up on_bar evaluates the exit check first,
\* then the pyramid check, then the entry check, and returns the first order
\* produced: an EXIT ends the bar after the exit check, a pyramid add ends
\* it after the pyramid check, and an initial ENTER comes out of the entry
\* check, which runs only when the position is FLAT.
C4_ExitPyramidEntryOrder ==
    PastWarmup =>
        /\ evaluated \in { <<"exit">>, <<"exit", "pyramid">>,
                           <<"exit", "pyramid", "enter">> }
        /\ IsExit(signal) => evaluated = <<"exit">>
        /\ IsPyramid(signal) => evaluated = <<"exit", "pyramid">>
        /\ IsInitialEnter(signal) =>
              evaluated = <<"exit", "pyramid", "enter">>

ATRUndefinedOrNotPositive(d) ==
    d[Len(d)].atr = None \/ Val(d[Len(d)].atr) <= 0

\* the checks of on_bar, run on a last row without a usable ATR, return no
\* ENTER and leave the position fields as they were
C5_Checks ==
    (s_pc = "ready" /\ Len(s_bars) >= 2) =>
        \A d \in AtrCases(CurrentDf) : \A st \in StratStates :
            ATRUndefinedOrNotPositive(d) =>
                /\ MaybeEnter(Val(params), st, d)
                      = [strat |-> st, order |-> NoOrder]
                /\ MaybePyramid(Val(params), st, d)
                      = [strat |-> st, order |-> NoOrder]
                /\ ~IsEnter(EvaluateChecks(Val(params), st, d).order)
                /\ EvaluateChecks(Val(params), st, d).strat = st

\* on_bar, called with a bar that leaves the ATR undefined or not positive,
\* returns no ENTER and leaves the position fields as they were
C5_Step ==
    (OnBarStep /\ ATRUndefinedOrNotPositive(
                     ComputeIndicators(Val(params), s_bars')))
        => ~IsEnter(signal') /\ strat' = strat

\* C5: on a bar whose ATR is undefined or <= 0 neither on_bar nor its entry
\* and pyramid checks return an ENTER, whatever the close, the channel and
\* the EMA are, and the position state stays as it was.
C5_NoEnterWithoutAtr == []C5_Checks /\ [][C5_Step]_vars

\* a bar past the warm-up that closes above the entry channel while the ATR
\* is zero, taken by on_bar
C5_Witness ==
    /\ PastWarmup
    /\ s_pc = "ready"
    /\ Val(Last(CurrentDf).atr) = 0
    /\ Last(CurrentDf).close > Val(Last(CurrentDf).donch_high_X)
    /\ ~IsEnter(signal)
    /\ strat = FlatStrat

\* the checks of on_bar: an EXIT comes from an open position only and
\* resets every position field; the position leaves FLAT exactly on an
\* initial ENTER and goes back to FLAT exactly on an EXIT
C7_Checks ==
    (s_pc = "ready" /\ Len(s_bars) >= 2) =>
        \A d \in {CurrentDf} : \A st \in StratStates :
            \A r \in {EvaluateChecks(Val(params), st, d)} :
                /\ IsExit(r.order) =>
                      st.position # "FLAT" /\ r.strat = FlatStrat
                /\ IsInitialEnter(r.order) <=>
                      (st.position = "FLAT" /\ r.strat.position # "FLAT")
                /\ (st.position # "FLAT" /\ ~IsExit(r.order)) =>
                      r.strat.position = st.position

\* the same of a call of on_bar
C7_Step ==
    OnBarStep =>
        /\ IsExit(signal') =>
              strat.position # "FLAT" /\ strat' = FlatStrat
        /\ IsInitialEnter(signal') <=>
              (strat.position = "FLAT" /\ strat'.position # "FLAT")
        /\ (strat.position # "FLAT" /\ ~IsExit(signal')) =>
              strat'.position = strat.position

\* C7: an EXIT leaves position FLAT, qty 0, added_units 0 and entry_price,
\* stop_price, next_add_price unset; no EXIT is returned while FLAT; the
\* position opens on an initial ENTER only and closes on an EXIT only, so
\* that one initial ENTER lies between two consecutive EXITs.
C7_ExitResetsState == []C7_Checks /\ [][C7_Step]_vars

\* a buffer past the warm-up, taken by on_bar while FLAT without an EXIT,
\* on whose last row the exit check closes an open Long
C7_Witness ==
    /\ PastWarmup
    /\ s_pc = "ready"
    /\ strat.position = "FLAT"
    /\ ~IsExit(signal)
    /\ \E st \in StratStates :
          /\ st.position = "LONG"
          /\ IsExit(EvaluateChecks(Val(params), st, CurrentDf).order)

\* C13: a call that leaves a position open leaves its working stop at least
\* as tight as it was: not lower for a Long, not higher for a Short; and
\* with the trailing stop on and a positive ATR the new stop of a Long is
\* max(previous stop, close - TRAIL_K * ATR), that of a Short
\* min(previous stop, close + TRAIL_K * ATR).  This for every stop value a
\* position can have at positive prices: any for a Long, zero included, and
\* a positive one for a Short.
C13_StopOnlyTightens ==
    (s_pc = "ready" /\ Len(s_bars) >= 2) =>
        \A d \in {CurrentDf} : \A st \in StratStates :
            LET p     == Val(params)
                last  == Last(d)
                r     == EvaluateChecks(p, st, d)
                old   == Val(st.stop_price)
                new   == Val(r.strat.stop_price)
                trail == p.USE_TRAIL_ATR /\ last.atr # None
                            /\ Val(last.atr) > 0
            IN  (st.position # "FLAT" /\ st.stop_price # None
                    /\ (st.position = "SHORT" => old > 0)
                    /\ r.strat.position = st.position) =>
                  /\ st.position = "LONG" => new >= old
                  /\ st.position = "SHORT" => new <= old
                  /\ (trail /\ st.position = "LONG") =>
                        new = Max(old, last.close - p.TRAIL_K * Val(last.atr))
                  /\ (trail /\ st.position = "SHORT") =>
                        new = Min(old, last.close + p.TRAIL_K * Val(last.atr))

\* C14: on a bar past the warm-up, for an open position with a working
\* stop, an EXIT is returned exactly when the trailing condition (Long:
\* close <= updated stop, Short: close >= updated stop, the updated stop being
\* max resp. min of the previous stop and close -/+ TRAIL_K * ATR) or the
\* Donchian-inverse condition (Long: close < Donchian-low(Y), Short: close >
\* Donchian-high(Y)) holds, each under its switch; the reason is TRAIL_ATR
\* when the trailing condition holds and DONCHIAN_INVERSE otherwise.
C14_ExitIffEitherCondition ==
    (s_pc = "ready" /\ PastWarmup) =>
        \A d \in {CurrentDf} : \A st \in StratStates :
            LET p       == Val(params)
                last    == Last(d)
                close   == last.close
                atr     == Val(last.atr)
                old     == Val(st.stop_price)
                updated == IF st.position = "LONG"
                           THEN Max(old, close - p.TRAIL_K * atr)
                           ELSE Min(old, close + p.TRAIL_K * atr)
                trail   == /\ p.USE_TRAIL_ATR
                           /\ IF st.position = "LONG"
                              THEN close <= updated ELSE close >= updated
                donch   == /\ p.USE_DONCHIAN_EXIT
                           /\ IF st.position = "LONG"
                              THEN close < Val(last.donch_low_Y)
                              ELSE close > Val(last.donch_high_Y)
                r       == EvaluateChecks(p, st, d)
            IN  (st.position # "FLAT" /\ st.stop_price # None
                    /\ (st.position = "SHORT" => old > 0)) =>
                  /\ IsExit(r.order) <=> (trail \/ donch)
                  /\ IsExit(r.order) =>
                        r.order.reason = IF trail THEN "TRAIL_ATR"
                                         ELSE "DONCHIAN_INVERSE"

\* the rows, and the same rows with the EMA of the last one undefined, its
\* entry channel high below the close, its entry channel low above the close
EntryCases(d) ==
    LET last == d[Len(d)]
    IN  { [d EXCEPT ![Len(d)] = [last EXCEPT !.ema_trend = e,
                                             !.donch_high_X = h,
                                             !.donch_low_X = l]] :
            e \in {last.ema_trend, None},
            h \in {last.donch_high_X, Some(last.close - 2)},
            l \in {last.donch_low_X, Some(last.close + 2)} }

\* the checks of on_bar return an initial ENTER only from FLAT with a
\* positive ATR, a close beyond the entry channel on the order's side and,
\* with the trend filter on, a close on that side of a defined EMA; Short
\* only if ALLOW_SHORT; Long when both sides qualify
C15_Checks ==
    (s_pc = "ready" /\ Len(s_bars) >= 2) =>
        \A d0 \in {CurrentDf} : \A d \in EntryCases(d0) :
        \A st \in StratStates :
        \A r \in {EvaluateChecks(Val(params), st, d)} :
            LET p     == Val(params)
                last  == Last(d)
                close == last.close
                ema   == last.ema_trend
                atrOk == last.atr # None /\ Val(last.atr) > 0
                up    == /\ last.donch_high_X # None
                         /\ close > Val(last.donch_high_X)
                down  == /\ last.donch_low_X # None
                         /\ close < Val(last.donch_low_X)
                above == \/ ~p.USE_TREND_FILTER
                         \/ ema # None /\ close * Val(ema).den > Val(ema).num
                below == \/ ~p.USE_TREND_FILTER
                         \/ ema # None /\ close * Val(ema).den < Val(ema).num
                long  == IsInitialEnter(r.order) /\ SideOf(r.order) = "LONG"
                short == IsInitialEnter(r.order) /\ SideOf(r.order) = "SHORT"
            IN  /\ IsInitialEnter(r.order) => long \/ short
                /\ long  => st.position = "FLAT" /\ atrOk /\ up /\ above
                /\ short => /\ st.position = "FLAT" /\ atrOk
                            /\ p.ALLOW_SHORT /\ down /\ below
                /\ (st.position = "FLAT" /\ atrOk /\ up /\ above
                        /\ p.ALLOW_SHORT /\ down /\ below) => long
                /\ (p.USE_TREND_FILTER /\ ema = None) =>
                        ~IsInitialEnter(r.order)

\* the same of a call of on_bar
C15_Step ==
    OnBarStep =>
        LET p     == Val(params)
            last  == Last(ComputeIndicators(p, s_bars'))
            close == last.close
            ema   == last.ema_trend
            atrOk == last.atr # None /\ Val(last.atr) > 0
            above == \/ ~p.USE_TREND_FILTER
                     \/ ema # None /\ close * Val(ema).den > Val(ema).num
            below == \/ ~p.USE_TREND_FILTER
                     \/ ema # None /\ close * Val(ema).den < Val(ema).num
        IN  /\ (IsInitialEnter(signal') /\ SideOf(signal') = "LONG") =>
                  /\ strat.position = "FLAT" /\ atrOk /\ above
                  /\ close > Val(last.donch_high_X)
            /\ (IsInitialEnter(signal') /\ SideOf(signal') = "SHORT") =>
                  /\ strat.position = "FLAT" /\ atrOk /\ below
                  /\ p.ALLOW_SHORT
                  /\ close < Val(last.donch_low_X)

\* C15: an initial ENTER LONG is returned only when the strategy is FLAT,
\* ATR > 0, close > Donchian-high(X) and the trend filter is off or close >
\* EMA; an initial ENTER SHORT only when ALLOW_SHORT, FLAT, ATR > 0, close <
\* Donchian-low(X) and the filter is off or close < EMA; when both sides
\* qualify the order is the Long one; with the filter on and the EMA
\* undefined there is no entry.
C15_EntryConditions == []C15_Checks /\ [][C15_Step]_vars

\* a buffer past the warm-up, taken by on_bar, on whose last row the entry
\* check with the trend filter on opens a Long from FLAT
C15_Witness ==
    /\ PastWarmup
    /\ s_pc = "ready"
    /\ Val(params).USE_TREND_FILTER
    /\ ~IsEnter(signal)
    /\ \A r \in {EvaluateChecks(Val(params), FlatStrat, CurrentDf)} :
          /\ IsInitialEnter(r.order) /\ SideOf(r.order) = "LONG"
          /\ r.strat.position = "LONG"

\* the bars received so far are the steadily rising series: each bar has the
\* same range, low <= close <= high, and closes above the bar before
SteadilyRising ==
    \A k \in 1..Len(s_bars) : s_bars[k] = RisingBar(k - 1)

\* C16: on a steadily rising series of well-formed bars with the trend
\* filter off, on_bar returns an ENTER LONG on the first bar past the warm-up
\* (its close is above the highs of the X bars before it) and the Long stays
\* open on the bars after it, with no further ENTER and no EXIT.
C16_BreakoutEntersLong ==
    (s_pc = "ready" /\ PastWarmup /\ SteadilyRising
        /\ ~Val(params).USE_TREND_FILTER) =>
        /\ strat.position = "LONG"
        /\ Len(s_bars) = Warmup(Val(params)) =>
              IsInitialEnter(signal) /\ SideOf(signal) = "LONG"
        /\ Len(s_bars) > Warmup(Val(params)) =>
              ~IsInitialEnter(signal) /\ ~IsExit(signal)

\* C17: an initial ENTER carries qty = clamp(RISK_PER_TRADE * BASE_CAPITAL /
\* (STOP_K * ATR * VALUE_PER_POINT), MIN_QTY, MAX_QTY), hence a qty between
\* MIN_QTY and MAX_QTY; right after it the strategy holds that qty, its stop
\* is entry - STOP_K * ATR for a Long and entry + STOP_K * ATR for a Short,
\* added_units is 0, and next_add_price is entry +/- PYRAMID_STEP_ATR * ATR
\* if PYRAMID_UNITS > 0 and unset otherwise.
C17_EntrySizing ==
    (s_pc = "ready" /\ Len(s_bars) >= 2) =>
        \A d \in {CurrentDf} :
        \A r \in {EvaluateChecks(Val(params), FlatStrat, d)} :
            IsInitialEnter(r.order) =>
                LET p     == Val(params)
                    atr   == Val(Last(d).atr)
                    entry == Last(d).close
                    sign  == IF SideOf(r.order) = "LONG" THEN 1 ELSE -1
                    money == (p.RISK_PER_TRADE * p.BASE_CAPITAL) \div 100
                    raw   == money \div (p.STOP_K * atr * p.VALUE_PER_POINT)
                IN  /\ r.order.qty = Max(p.MIN_QTY, Min(raw, p.MAX_QTY))
                    /\ p.MIN_QTY <= r.order.qty /\ r.order.qty <= p.MAX_QTY
                    /\ r.order.price = entry
                    /\ r.strat.position = SideOf(r.order)
                    /\ r.strat.qty = r.order.qty
                    /\ r.strat.entry_price = Some(entry)
                    /\ r.strat.stop_price = Some(entry - sign * p.STOP_K * atr)
                    /\ r.strat.added_units = 0
                    /\ r.strat.next_add_price =
                          IF p.PYRAMID_UNITS > 0
                          THEN Some(entry + sign * p.PYRAMID_STEP_ATR * atr)
                          ELSE None

\* the checks of on_bar return a pyramid add only for an open position whose
\* close has reached next_add_price and that has adds left; the add has the
\* qty and the side of the position, counts one add, keeps added_units
\* within 0..PYRAMID_UNITS and leaves position, qty and entry as they were;
\* the pyramid check leaves stop_price as it was
C18_Checks ==
    (s_pc = "ready" /\ Len(s_bars) >= 2) =>
        \A d \in {CurrentDf} :
        \A st \in {x \in StratStates :
                       x.added_units <= Val(params).PYRAMID_UNITS} :
        \A r \in {EvaluateChecks(Val(params), st, d)} :
            LET p     == Val(params)
                close == Last(d).close
            IN  /\ IsPyramid(r.order) =>
                      /\ st.position # "FLAT"
                      /\ st.next_add_price # None
                      /\ st.position = "LONG" =>
                            close >= Val(st.next_add_price)
                      /\ st.position = "SHORT" =>
                            close <= Val(st.next_add_price)
                      /\ st.added_units < p.PYRAMID_UNITS
                      /\ r.order.qty = st.qty
                      /\ SideOf(r.order) = st.position
                      /\ r.strat.added_units = st.added_units + 1
                      /\ r.strat.position = st.position
                      /\ r.strat.qty = st.qty
                      /\ r.strat.entry_price = st.entry_price
                /\ r.strat.added_units >= 0
                /\ r.strat.added_units <= p.PYRAMID_UNITS
                /\ ~IsPyramid(r.order) =>
                      r.strat.added_units \in {st.added_units, 0}
                /\ MaybePyramid(p, st, d).strat.stop_price = st.stop_price

\* the same of a call of on_bar
C18_Step ==
    OnBarStep =>
        /\ IsPyramid(signal') =>
              /\ strat.position # "FLAT"
              /\ strat.added_units < Val(params).PYRAMID_UNITS
              /\ signal'.qty = strat.qty
              /\ SideOf(signal') = strat.position
              /\ strat'.added_units = strat.added_units + 1
        /\ strat'.added_units >= 0
        /\ strat'.added_units <= Val(params).PYRAMID_UNITS

\* C18: a pyramid add is returned only while a position is open, its close
\* has reached next_add_price (Long: close >= trigger, Short: close <=
\* trigger) and added_units < PYRAMID_UNITS; added_units stays within
\* 0..PYRAMID_UNITS, so at most PYRAMID_UNITS adds lie between an entry and
\* its exit; the add's qty is the qty of the initial leg and its side the
\* open side; the add does not modify stop_price.
C18_PyramidBounded == []C18_Checks /\ [][C18_Step]_vars

\* a buffer past the warm-up, taken by on_bar, on whose last row the pyramid
\* check adds to an open Long that has an add left and refuses the add to
\* the same Long once its adds are used up
C18_Witness ==
    /\ PastWarmup
    /\ s_pc = "ready"
    /\ ~IsEnter(signal)
    /\ \E st \in StratStates :
          /\ st.position = "LONG" /\ st.added_units = 0
          /\ IsPyramid(EvaluateChecks(Val(params), st, CurrentDf).order)
          /\ ~IsEnter(EvaluateChecks(Val(params),
                                     [st EXCEPT !.added_units = 1],
                                     CurrentDf).order)

\* the rows with one indicator of the last row undefined: the ATR, the EMA,
\* the entry channel, the exit channel
UndefinedCases(d) ==
    LET last == d[Len(d)]
    IN  { [d EXCEPT ![Len(d)] = [last EXCEPT !.atr = None]],
          [d EXCEPT ![Len(d)] = [last EXCEPT !.ema_trend = None]],
          [d EXCEPT ![Len(d)] = [last EXCEPT !.donch_high_X = None,
                                             !.donch_low_X = None]],
          [d EXCEPT ![Len(d)] = [last EXCEPT !.donch_high_Y = None,
                                             !.donch_low_Y = None]] }

\* the checks of on_bar on a last row with an undefined indicator: no order
\* at all without an ATR, no initial ENTER without the EMA the filter asks
\* for or without the entry channel, no Donchian exit without the exit
\* channel
C26_Checks ==
    (s_pc = "ready" /\ Len(s_bars) >= 2) =>
        \A d0 \in {CurrentDf} : \A d \in UndefinedCases(d0) :
        \A st \in StratStates :
        \A r \in {EvaluateChecks(Val(params), st, d)} :
            LET last == d[Len(d)]
            IN  /\ last.atr = None =>
                      r.order = NoOrder /\ r.strat = st
                /\ (Val(params).USE_TREND_FILTER /\ last.ema_trend = None)
                      => ~IsInitialEnter(r.order)
                /\ (last.donch_high_X = None /\ last.donch_low_X = None)
                      => ~IsInitialEnter(r.order)
                /\ (last.donch_high_Y = None /\ last.donch_low_Y = None
                        /\ IsExit(r.order))
                      => r.order.reason = "TRAIL_ATR"

\* on_bar, taking a bar that leaves it with fewer bars than the warm-up,
\* returns no order, does not raise and leaves the position state FLAT and
\* as it was
C26_Step ==
    (OnBarStep /\ Len(s_bars') < Max(Val(params).ATR_LEN,
                                     Max(Val(params).DONCHIAN_ENTRY_X,
                                         Val(params).DONCHIAN_EXIT_Y)) + 2)
        => /\ signal' = NoOrder
           /\ s_pc' = "ready"
           /\ strat' = strat
           /\ strat'.position = "FLAT"

\* C26: while fewer than max(ATR_LEN, DONCHIAN_ENTRY_X, DONCHIAN_EXIT_Y) + 2
\* bars have been fed, on_bar returns no order, raises nothing and leaves the
\* position state FLAT and unchanged; past the warm-up an undefined
\* indicator value makes the check that reads it return no order.
C26_InsufficientHistoryHolds == []C26_Checks /\ [][C26_Step]_vars

\* on_bar has taken the last bar of the warm-up but one and holds, FLAT
C26_Witness ==
    /\ s_pc = "ready"
    /\ Len(s_bars) = Warmup(Val(params)) - 1
    /\ Last(CurrentDf).atr # None
    /\ Last(CurrentDf).close > Val(Last(CurrentDf).donch_high_X)
    /\ signal = NoOrder
    /\ strat = FlatStrat

\* the windows the indicators are asked for
IndicatorWindows == 1..3

\* the part of C30 about ATR and Donchian: undefined on the rows before the
\* window-th, defined from it on
C30_RollingWarmup ==
    \A window \in IndicatorWindows : \A t \in 1..Len(s_bars) :
        /\ Atr(s_bars, t, window) = None <=> t < window
        /\ DonchianHigh(s_bars, t, window) = None <=> t < window
        /\ DonchianLow(s_bars, t, window) = None <=> t < window

\* C30: at a row with fewer observations than its window an indicator is
\* undefined: ATR(W) and Donchian(W) are undefined on the rows of index
\* below W - 1 and defined from index W - 1 on, and EMA(L) is undefined
\* until L closes have been seen.
C30_UndefinedBeforeWindow ==
    /\ C30_RollingWarmup
    /\ \A length \in IndicatorWindows : \A t \in 1..Len(s_bars) :
          t < length => Ema(s_bars, t, length) = None

\* the close of the last row is at or beyond the stop the position holds
StopReached(st, last) ==
    /\ st.position # "FLAT"
    /\ st.stop_price # None
    /\ last.atr # None /\ Val(last.atr) > 0
    /\ \/ st.position = "LONG"  /\ last.close <= Val(st.stop_price)
       \/ st.position = "SHORT" /\ last.close >= Val(st.stop_price)

\* C37: on a bar past the warm-up with a positive ATR, a Long whose stop is
\* at or above the close, or a Short whose stop is at or below it, is
\* answered with an EXIT on that bar, with the trailing stop switched on or
\* off.
C37_StopEnforcedEveryBar ==
    (s_pc = "ready" /\ PastWarmup) =>
        \A d \in {CurrentDf} : \A st \in StratStates :
            StopReached(st, Last(d)) =>
                IsExit(EvaluateChecks(Val(params), st, d).order)

\* the part of C37 that holds: with the trailing stop switched on, a stop
\* that is not 0.0 and is reached by the close gives an EXIT with reason
\* TRAIL_ATR
C37_TrailingStopExits ==
    (s_pc = "ready" /\ PastWarmup /\ Val(params).USE_TRAIL_ATR) =>
        \A d \in {CurrentDf} : \A st \in StratStates :
            (StopReached(st, Last(d)) /\ StopOrDefault(st.stop_price)) =>
                \A r \in {EvaluateChecks(Val(params), st, d)} :
                    IsExit(r.order) /\ r.order.reason = "TRAIL_ATR"

\* a bar that closes within its own range
WellFormedBar(b) == b.low <= b.close /\ b.close <= b.high

\* the buffers of n well-formed bars
RECURSIVE WellFormedOfLen(_)
WellFormedOfLen(n) ==
    IF n = 0 THEN {<<>>}
    ELSE { Append(bars, b) :
             bars \in WellFormedOfLen(n - 1),
             b \in { c \in BarsAt(n - 1) : WellFormedBar(c) } }

\* the buffers of well-formed bars, up to the longest the strategy is fed
WellFormedBuffers == UNION { WellFormedOfLen(n) : n \in 2..MaxTurtleBars }

\* the entry check on the last bar of a buffer, for a flat strategy
EntryOn(p, bars) ==
    EvaluateChecks(p, FlatStrat, ComputeIndicators(p, bars)).order

\* C34: with the trend filter off there is a series of bars, each closing
\* within its own range, on which the strategy returns an ENTER: the
\* breakout test close > Donchian-high(X), or close < Donchian-low(X), can be
\* met by such a bar.
C34_EntryReachable ==
    (s_pc = "ready" /\ ~Val(params).USE_TREND_FILTER) =>
        \/ IsEnter(signal)
        \/ \E bars \in WellFormedBuffers : IsEnter(EntryOn(Val(params), bars))

\* what holds instead: on a buffer of bars that close within their range,
\* neither on_bar nor its entry check ever gives an ENTER, the window of the
\* Donchian channel taking in the bar under test
C34_NoEntryOnWellFormedBars ==
    (s_pc = "ready" /\ Len(s_bars) >= 2
        /\ \A k \in 1..Len(s_bars) : WellFormedBar(s_bars[k])) =>
        /\ ~IsEnter(signal)
        /\ ~IsEnter(EntryOn(Val(params), s_bars))
        /\ \A d \in {CurrentDf} :
              /\ Last(d).donch_high_X # None =>
                    Last(d).close <= Val(Last(d).donch_high_X)
              /\ Last(d).donch_low_X # None =>
                    Last(d).close >= Val(Last(d).donch_low_X)

-----------------------------------------------------------------------------
(* Properties of a replayed run, under SpecReplay *)

-----------------------------------------------------------------------------
(* Properties of product_dict and run_grid, under SpecGrid *)

\* the number of combos in which the names after the k-th run through all
\* their candidates
RECURSIVE Stride(_, _)
Stride(g, k) ==
    IF k >= Len(g) THEN 1 ELSE Len(g[k + 1].values) * Stride(g, k + 1)

\* the candidate that the n-th combo of the cartesian product, the first
\* name varying slowest, gives to the k-th name
CandidateAt(g, n, k) ==
    g[k].values[(((n - 1) \div Stride(g, k)) % Len(g[k].values)) + 1]

\* the combos are the cartesian product of the grid
CombosAreProduct ==
    grid.pc \in {"loop", "done", "raised"} =>
        LET g      == grid.param_grid
            combos == grid.combos
            names  == { g[k].name : k \in 1..Len(g) }
        IN  /\ Len(combos) = Stride(g, 0)
            /\ \A n \in 1..Len(combos) :
                  /\ DOMAIN combos[n] = names
                  /\ \A k \in 1..Len(g) :
                        combos[n][g[k].name] = CandidateAt(g, n, k)
            /\ \A f \in [names -> GridValues] :
                  (\A k \in 1..Len(g) :
                      \E c \in 1..Len(g[k].values) :
                          f[g[k].name] = g[k].values[c])
                  => \E n \in 1..Len(combos) : combos[n] = f
            /\ (\A k \in 1..Len(g) : \A a, b \in 1..Len(g[k].values) :
                    a # b => g[k].values[a] # g[k].values[b])
               => \A n, m \in 1..Len(combos) :
                      n # m => combos[n] # combos[m]

\* the table returned holds one row per combo
OneRowPerCombo ==
    grid.pc = "done" =>
        /\ Len(Val(grid.out)) = Len(grid.combos)
        /\ \A n \in 1..Len(grid.combos) :
              \E k \in 1..Len(Val(grid.out)) :
                  /\ Val(grid.out)[k].member = n
                  /\ Val(grid.out)[k].params = grid.combos[n]

\* C19: product_dict expands the grid into its cartesian product:
\* prod(len(values)) combos, each giving every name one of its candidates,
\* none missing, none twice when no candidate list repeats a value, in the
\* order in which the first name varies slowest; and run_grid returns a table
\* with exactly one row per combo.
C19_GridIsCartesianProduct ==
    /\ CombosAreProduct
    /\ OneRowPerCombo
    /\ grid.pc # "raised"

\* the table returned is in non-increasing order of score
RankedByScore ==
    grid.pc = "done" =>
        \A a, b \in 1..Len(Val(grid.out)) :
            a < b => Val(grid.out)[a].score >= Val(grid.out)[b].score

\* C20: the table run_grid returns is in non-increasing order of score, and
\* two rows of equal score stand in the order of their combos in the grid
\* expansion.
C20_StableRanking ==
    /\ RankedByScore
    /\ grid.pc = "done" =>
          \A a, b \in 1..Len(Val(grid.out)) :
              (a < b /\ Val(grid.out)[a].score = Val(grid.out)[b].score)
                  => Val(grid.out)[a].member < Val(grid.out)[b].member

-----------------------------------------------------------------------------
(* Properties of a sweep: run_grid with the runs of its members (SpecSweep)  *)

\* the rows of the first call, once it is over
FirstRows == IF grid.first = None THEN <<>> ELSE Val(grid.first).rows

\* what a row says of its run, the loop's counter left out
RowMetrics(r) ==
    [params |-> r.params, nb_trades |-> r.nb_trades,
     hit_ratio |-> r.hit_ratio, profit_factor |-> r.profit_factor,
     CAGR |-> r.CAGR, MaxDD |-> r.MaxDD, Sharpe |-> r.Sharpe,
     final_equity |-> r.final_equity, score |-> r.score,
     trades |-> r.trades, equity_curve |-> r.equity_curve]

\* C21: when make_strategy raises a configuration error for one ParamSet,
\* run_grid does not end with that error: it goes on with the other
\* ParamSets and returns their rows.
C21_SweepSurvivesInvalidPoint ==
    ~(grid.pc = "raised" /\ grid.error = Some("ValueError"))

\* a ParamSet ran in both calls, at different places of the loop
RanTwiceElsewhere ==
    \E a \in 1..Len(grid.rows), b \in 1..Len(FirstRows) :
        /\ grid.rows[a].params = FirstRows[b].params
        /\ a # b
        /\ grid.rows[a].nb_trades > 0

\* the result of a member holds its own run only: one equity point per bar
\* of df, in the order of the bars, and trades of its own SIDE entered no
\* earlier than its WINDOW-th bar
OwnResultOnly(r) ==
    /\ Len(r.equity_curve) <= Len(df)
    /\ \A a, b \in 1..Len(r.equity_curve) :
          a < b => r.equity_curve[a].time < r.equity_curve[b].time
    /\ Len(r.trades) <= 1
    /\ \A t \in 1..Len(r.trades) :
          /\ r.trades[t].side = r.params.SIDE
          /\ r.trades[t].entry_time >= BarTime(r.params.WINDOW - 1)

ScoreIsDefault(r) ==
    IF r.MaxDD.num = 0 \/ r.CAGR = ZeroCagr
    THEN r.score = ZeroScore
    ELSE /\ ~r.score.zero
         /\ r.score.cagr = r.CAGR
         /\ r.score.dd.num * r.MaxDD.den = -r.MaxDD.num * r.score.dd.den

\* C23: the default score of every row is CAGR / |MaxDD| when MaxDD is not
\* 0 and 0 when it is, and computing the stats and the score of a run never
\* raises, whatever the run's ledger and equity curve are.
C23_DefaultScoreTotal ==
    /\ \A a \in 1..Len(grid.rows) : ScoreIsDefault(grid.rows[a])
    /\ ~(grid.pc = "raised" /\ grid.error = Some("OverflowError"))

\* no member of the grid emits an order on df: each WINDOW is beyond the
\* last bar
NeverOrders ==
    \A a \in 1..Len(grid.combos) : grid.combos[a].WINDOW > Len(df)

\* the row of a run without orders
ZeroRow(r) ==
    /\ r.nb_trades = 0
    /\ r.hit_ratio = ZeroFrac
    /\ r.profit_factor = ZeroFrac
    /\ \A t \in 1..Len(r.equity_curve) :
          r.equity_curve[t].equity = cfg.INITIAL_CAPITAL
    /\ r.MaxDD = ZeroFrac
    /\ r.score = ZeroScore

\* C24: on a df on which no member emits an order, every row has
\* nb_trades = 0, hit_ratio = 0, profit_factor = 0, an equity curve constant
\* at INITIAL_CAPITAL, MaxDD = 0 and score = 0, and the rows of the returned
\* table are in the order of the grid expansion.
C24_FlatSeriesZeroRows ==
    (grid.pc = "done" /\ NeverOrders) =>
        /\ \A a \in 1..Len(grid.rows) : ZeroRow(grid.rows[a])
        /\ \A a \in 1..Len(Val(grid.out)) : Val(grid.out)[a].member = a

\* the part of C24 about the values of the rows
C24_ZeroRowsOnly ==
    (grid.pc \in {"loop", "done"} /\ NeverOrders) =>
        \A a \in 1..Len(grid.rows) : ZeroRow(grid.rows[a])

-----------------------------------------------------------------------------
(* Properties of missing bar data (SpecData) *)

\* what run leaves of a new engine when it raises: on_bar was not called
\* by it (replay.orders holds one entry per call), nothing was recorded
NothingHappened ==
    /\ trades = <<>>
    /\ equity_curve = <<>>
    /\ position = FlatPosition
    /\ replay.orders = <<>>

\* run is past _validate_df only with the five columns; when run has raised
\* on a new engine, the strategy has received no bar from it, the ledger
\* and the equity curve are empty and the position is FLAT; and no bar of
\* the strategy's buffer lacks a key
C25_Inv ==
    /\ pc \in {"loop", "done"} =>
          {"time", "open", "high", "low", "close"} \subseteq columns
    /\ pc = "raised" => NothingHappened
    /\ \A t \in 1..Len(s_bars) :
          {"time", "open", "high", "low", "close"} \subseteq DOMAIN s_bars[t]

\* a step in which run or on_bar raises leaves the ledger, the equity curve,
\* the position, the strategy's buffer, its frame and its position state
\* as they were
C25_Step ==
    (pc' = "raised" \/ s_pc' = "raised") =>
        /\ trades' = trades
        /\ equity_curve' = equity_curve
        /\ position' = position
        /\ s_bars' = s_bars
        /\ s_df' = s_df
        /\ strat' = strat

\* C25: a df lacking one of time, open, high, low, close makes run raise
\* before the strategy receives a bar, the ledger and the equity curve
\* staying empty and the position FLAT; on_bar raises on a bar lacking one
\* of these keys without appending it to its buffer and without changing
\* its position state.
C25_MissingDataIsHardFailure == []C25_Inv /\ [][C25_Step]_vars

\* run has raised on a df lacking a column, and on_bar has raised on a
\* strategy holding bars
C25_Witness ==
    /\ pc = "raised"
    /\ ~(RequiredColumns \subseteq columns)
    /\ s_pc = "raised"
    /\ Len(s_bars) >= 1

-----------------------------------------------------------------------------
(* Properties of the constructor (SpecConstruct) *)

\* the configuration surface: risk fraction > 0, STOP_K and TRAIL_K > 0,
\* Donchian windows >= 2, ATR window and EMA span >= 1, pyramid unit count
\* >= 0, pyramid step > 0, MIN_QTY <= MAX_QTY
OnSurfaceButUnits(p) ==
    /\ p.RISK_PER_TRADE > 0
    /\ p.STOP_K > 0
    /\ p.TRAIL_K > 0
    /\ p.DONCHIAN_ENTRY_X >= 2
    /\ p.DONCHIAN_EXIT_Y >= 2
    /\ p.ATR_LEN >= 1
    /\ p.EMA_TREND_LEN >= 1
    /\ p.PYRAMID_STEP_ATR > 0
    /\ p.MIN_QTY <= p.MAX_QTY

\* the constructor has been called
Constructed == s_pc # "new"

\* C28: with PYRAMID_UNITS = 0, every other parameter valid and strict
\* validation on, the constructor does not raise; so it is for the default
\* TurtleParams().
C28_ZeroPyramidUnitsAccepted ==
    (/\ Constructed
     /\ Val(params).STRICT_VALIDATION
     /\ Val(params).PYRAMID_UNITS = 0
     /\ OnSurfaceButUnits(Val(params)))
        => s_pc = "ready"

\* C29: a parameter set off the configuration surface is rejected by the
\* constructor, whatever its other values are, and no strategy made from it
\* ever receives a bar.
C29_InvalidParamsRejected ==
    ~OnSurfaceButUnits(Val(params)) =>
        /\ Constructed => s_pc = "raised"
        /\ s_bars = <<>>

\* the part of C29 that strict validation gives: every violation but that
\* of the pyramid step is rejected
C29_StrictRejectsListed ==
    (/\ Constructed
     /\ Val(params).STRICT_VALIDATION
     /\ ~OnSurfaceButUnits([Val(params) EXCEPT !.PYRAMID_STEP_ATR = 1]))
        => s_pc = "raised" /\ s_bars = <<>>

-----------------------------------------------------------------------------
(* Properties of a second run on the same engine (SpecRerun)                 *)

\* the second call has returned
SecondRunDone == pc = "done" /\ replay.run = 2

\* the second call is at the top of its loop, before its first bar
SecondRunBegins == pc = "loop" /\ replay.run = 2 /\ i = 0

\* C39: the second call of run on one engine starts from an empty ledger,
\* an empty equity curve and a FLAT position, and returns the trades, the
\* equity curve and the final_equity the first call returned.
C39_RunRepeatable ==
    /\ SecondRunBegins =>
          /\ trades = <<>>
          /\ equity_curve = <<>>
          /\ position = FlatPosition
    /\ SecondRunDone =>
          /\ Val(result).trades = Val(replay.first).trades
          /\ Val(result).equity_curve = Val(replay.first).equity_curve
          /\ Val(result).final_equity = Val(replay.first).final_equity

\* the number alone: the second call's final_equity is the first call's
C39_FinalEquityRepeats ==
    SecondRunDone =>
        Val(result).final_equity = Val(replay.first).final_equity

\* what the code does: the second call's ledger and curve go on from the
\* first call's
C39_SecondRunGoesOn ==
    SecondRunDone =>
        /\ Len(Val(result).trades) >= Len(Val(replay.first).trades)
        /\ SubSeq(Val(result).trades, 1, Len(Val(replay.first).trades))
              = Val(replay.first).trades
        /\ SubSeq(Val(result).equity_curve, 1,
                  Len(Val(replay.first).equity_curve))
              = Val(replay.first).equity_curve

-----------------------------------------------------------------------------
(* Properties of the indicator columns (SpecIndicators)                      *)

\* a pass that reads the bars once, left to right, and keeps for a window w:
\* the true ranges of the last w bars and their sum, the candidates for the
\* highest high and the lowest low of the last w bars (index and value, the
\* best at the head), and the recursive EMA as a fraction
PassStart ==
    [n |-> 0, prev_close |-> None, trs |-> <<>>, sum |-> 0,
     maxq |-> <<>>, minq |-> <<>>, ema |-> None]

\* the candidates left once those a new high makes useless are dropped
RECURSIVE DropNotAbove(_, _)
DropNotAbove(q, v) ==
    IF q = <<>> \/ q[Len(q)][2] > v THEN q
    ELSE DropNotAbove(SubSeq(q, 1, Len(q) - 1), v)

RECURSIVE DropNotBelow(_, _)
DropNotBelow(q, v) ==
    IF q = <<>> \/ q[Len(q)][2] < v THEN q
    ELSE DropNotBelow(SubSeq(q, 1, Len(q) - 1), v)

\* the candidates still inside the window that ends on row n
InWindow(q, n, w) == IF q[1][1] <= n - w THEN Tail(q) ELSE q

PassStep(st, bar, w) ==
    LET n  == st.n + 1
        tr == IF st.prev_close = None THEN bar.high - bar.low
              ELSE Max(bar.high - bar.low,
                       Max(Abs(bar.high - Val(st.prev_close)),
                           Abs(bar.low - Val(st.prev_close))))
        full == Len(st.trs) = w
    IN  [n |-> n,
         prev_close |-> Some(bar.close),
         trs |-> Append(IF full THEN Tail(st.trs) ELSE st.trs, tr),
         sum |-> st.sum + tr - (IF full THEN Head(st.trs) ELSE 0),
         maxq |-> InWindow(Append(DropNotAbove(st.maxq, bar.high),
                                  <<n, bar.high>>), n, w),
         minq |-> InWindow(Append(DropNotBelow(st.minq, bar.low),
                                  <<n, bar.low>>), n, w),
         ema |-> IF st.ema = None
                 THEN Some([num |-> bar.close, den |-> 1])
                 ELSE Some([num |-> (w - 1) * Val(st.ema).num
                                       + 2 * bar.close * Val(st.ema).den,
                            den |-> (w + 1) * Val(st.ema).den])]

\* the pass after it has consumed the bars 1..t
RECURSIVE Pass(_, _, _)
Pass(bars, t, w) ==
    IF t = 0 THEN PassStart ELSE PassStep(Pass(bars, t - 1, w), bars[t], w)

\* what the pass holds for the row it has just consumed
PassAtr(st, w)  == IF st.n < w THEN None ELSE Some(st.sum \div w)
PassHigh(st, w) == IF st.n < w THEN None ELSE Some(st.maxq[1][2])
PassLow(st, w)  == IF st.n < w THEN None ELSE Some(st.minq[1][2])

\* the indicators of row t for a window w agree with the pass, and are the
\* same on the buffer cut after row t
CausalAt(bars, t, w) ==
    \A st \in {Pass(bars, t, w)} :
    \A cut \in {SubSeq(bars, 1, t)} :
        /\ Atr(bars, t, w) = PassAtr(st, w)
        /\ t >= w => SumTrueRange(bars, t - w + 1, t) = st.sum
        /\ DonchianHigh(bars, t, w) = PassHigh(st, w)
        /\ DonchianLow(bars, t, w) = PassLow(st, w)
        /\ Ema(bars, t, w) = st.ema
        /\ Atr(bars, t, w) = Atr(cut, t, w)
        /\ DonchianHigh(bars, t, w) = DonchianHigh(cut, t, w)
        /\ DonchianLow(bars, t, w) = DonchianLow(cut, t, w)
        /\ Ema(bars, t, w) = Ema(cut, t, w)

\* C31: the ATR, EMA and Donchian value of a row t, computed over the whole
\* buffer, depends on the bars up to t only: it is the value a single pass
\* from left to right (running sum, running max and min, recursive EMA)
\* holds after bar t, and it is the value the row had when the buffer ended
\* on bar t, so that appending later bars does not change it.
C31_IndicatorsCausal ==
    /\ \A w \in IndicatorWindows : \A t \in 1..Len(s_bars) :
          CausalAt(s_bars, t, w)
    /\ s_df # None =>
          \A t \in 1..Len(s_bars) :
              Val(s_df)[t] =
                  ComputeIndicators(Val(params), SubSeq(s_bars, 1, t))[t]

\* C31 witness: the columns have been computed on a buffer longer than the
\* longest window, whose first bar is higher than its last: the window has
\* moved on, and the Donchian high is not the same on the early rows as on
\* the last
C31_Witness ==
    /\ s_df # None
    /\ Len(s_bars) = MaxIndicatorBars
    /\ s_bars[1].high > s_bars[Len(s_bars)].high
    /\ Val(s_df)[2].donch_high_X # Val(s_df)[Len(s_bars)].donch_high_X

-----------------------------------------------------------------------------
(* Properties of the strategy driving the engine (SpecDrive)                 *)

\* the engine's position does not contradict the strategy's: it is FLAT, or
\* on the strategy's side with the strategy's qty
Agrees(st, pos) ==
    \/ pos.side = "FLAT"
    \/ pos.side = st.position /\ pos.qty = st.qty

\* the engine carries out every order of the strategy
EngineFollows == cfg.ALLOW_SHORT \/ ~Val(params).ALLOW_SHORT

\* the engine positions that go with a strategy position
EnginePositions(st) ==
    {FlatPosition} \cup
    { [side |-> st.position, entry_price |-> Some(price), qty |-> st.qty,
       entry_time |-> Some(BarTime(0))] :
        price \in IF st.position = "FLAT" THEN {} ELSE {8, 12} }

\* one bar iteration from an agreeing pair: on_bar's checks on the buffer,
\* then the engine on the order they give
AgreementKept(st, pos, d) ==
    \A r \in {EvaluateChecks(Val(params), st, d)} :
    \A e \in {ExecuteOrder(r.order, df, i - 1, pos, capital, trades)} :
        /\ Agrees(r.strat, e.position)
        /\ (IsEnter(r.order) /\ e.position.side # "FLAT") =>
              /\ e.position.side = SideOf(r.order)
              /\ e.position.qty = r.order.qty
        /\ (EngineFollows /\ pos.side = st.position) =>
              e.position.side = r.strat.position

\* C36: when the strategy drives the engine, at the end of every bar
\* iteration the engine's position is FLAT or has the side of the strategy's
\* position and the qty of its last ENTER order; and when the engine allows
\* shorts, or the strategy does not take them, the two sides are equal on
\* every bar.
C36_EngineFollowsStrategy ==
    /\ pc \in {"loop", "done"} =>
          /\ Agrees(strat, position)
          /\ EngineFollows => position.side = strat.position
    /\ (pc = "loop" /\ i >= 1 /\ PastWarmup) =>
          \A d \in {CurrentDf} : \A st \in StratStates :
              \A pos \in EnginePositions(st) :
                  AgreementKept(st, pos, d)

\* C36 witness: a bar iteration past the warm-up has ended, in an engine
\* that refuses shorts, on a bar where the entry check of a flat strategy
\* that takes shorts gives an ENTER SHORT
C36_Witness ==
    /\ pc = "loop" /\ i >= 1 /\ PastWarmup
    /\ ~cfg.ALLOW_SHORT /\ Val(params).ALLOW_SHORT
    /\ SideOf(EvaluateChecks(Val(params), FlatStrat, CurrentDf).order) = "SHORT"

-----------------------------------------------------------------------------
(* Properties of the series file (SpecStore)                                 *)

\* the last row of the input with the time tm
LastAt(rows, tm) ==
    rows[CHOOSE k \in 1..Len(rows) :
            /\ rows[k].time = tm
            /\ \A j \in (k + 1)..Len(rows) : rows[j].time # tm]

TimesOf(rows) == { rows[k].time : k \in 1..Len(rows) }

\* strictly increasing time, one row for each time of the input
SortedDistinct(out, rows) ==
    /\ \A a, b \in 1..Len(out) : a < b => out[a].time < out[b].time
    /\ TimesOf(out) = TimesOf(rows)

\* a call of normalize_ohlc_df has returned
Normalized == store.pc = "returned" /\ store.call = "normalize"

\* a call of write_series_parquet in the given mode, on an existing file,
\* has returned
Written(mode) ==
    /\ store.pc = "returned" /\ store.call = "write"
    /\ store.mode = mode /\ store.before # None

\* C32: normalize_ohlc_df returns the bars in strictly increasing time, one
\* row for each time of the input, and where a time occurs several times in
\* the input the row kept is the one that came last; and a merge keeps, for
\* a time that is in the file and in the new rows, the new row.
C32_LastWins ==
    /\ Normalized =>
          /\ SortedDistinct(Val(store.out), store.arg)
          /\ \A k \in 1..Len(Val(store.out)) :
                Val(store.out)[k]
                    = LastAt(store.arg, Val(store.out)[k].time)
    /\ Written("merge") =>
          \A k \in 1..Len(Val(store.file)) :
              Val(store.file)[k].time \in TimesOf(store.arg) =>
                  Val(store.file)[k]
                      = LastAt(store.arg, Val(store.file)[k].time)

\* the part of C32 that holds: strictly increasing time and one row for each
\* time, after normalize_ohlc_df and in the file after a merge
C32_SortedDistinct ==
    /\ Normalized => SortedDistinct(Val(store.out), store.arg)
    /\ Written("merge") =>
          SortedDistinct(Val(store.file), Val(store.before) \o store.arg)

\* C33: after a write in mode "append" on an existing file, the file holds
\* the rows it held before, followed by the new rows: no stored row is lost.
C33_AppendKeepsStoredRows ==
    Written("append") =>
        /\ Len(Val(store.file)) >= Len(Val(store.before))
        /\ SubSeq(Val(store.file), 1, Len(Val(store.before)))
              = Val(store.before)
        /\ SubSeq(Val(store.file), Len(Val(store.before)) + 1,
                  Len(Val(store.file)))
              \in Normalize(store.arg) \cup {store.arg}

\* what the code does: after a write in mode "append" the file holds the new
\* rows, normalised, and nothing else
C33_AppendReplaces ==
    Written("append") => Val(store.file) \in Normalize(store.arg)

-----------------------------------------------------------------------------
(* Properties of OandaClient._request (SpecRequestFair)                      *)

RequestOver == http.pc \in {"returned", "raised"}

RetriableStatus(status) == status \in {429, 500, 502, 503, 504}

\* at every moment of a call: how many attempts were made, which responses
\* were retried, and how the call ended if it has
RequestShape ==
    http.pc # "idle" =>
        LET got == http.responses
            n   == Len(got)
        IN  /\ n <= http.max_retries
            /\ \A k \in 1..(n - 1) :
                  /\ got[k].status >= 400
                  /\ RetriableStatus(got[k].status)
                  /\ k < http.max_retries
            /\ http.pc = "loop" =>
                  \A k \in 1..n : RetriableStatus(got[k].status)
                                     /\ k < http.max_retries
            /\ http.pc = "returned" =>
                  /\ n >= 1 /\ got[n].status < 400
                  /\ http.out = Some(BodyOf(got[n]))
                  /\ http.error = None
            /\ (http.pc = "raised" /\ http.max_retries >= 1) =>
                  /\ n >= 1 /\ got[n].status >= 400
                  /\ http.error = Some([type |-> "OandaHTTPError",
                                        status |-> got[n].status])
                  /\ ~RetriableStatus(got[n].status) \/ n = http.max_retries
                  /\ http.out = None

\* a step that sends a request sends one, and goes on to another attempt
\* only after a retriable status with an attempt left
RequestStep ==
    /\ Len(http'.responses) <= Len(http.responses) + 1
    /\ (http.pc = "loop" /\ http'.pc = "loop") =>
          /\ http'.attempt = http.attempt + 1
          /\ RetriableStatus(Last(http'.responses).status)
          /\ http.attempt < http.max_retries

\* C40: _request ends, after at most max_retries attempts: it returns the
\* body of the first response below 400; it tries again only after a 429,
\* 500, 502, 503 or 504 and only while attempts are left; any other status
\* from 400 up, or one of these at the last attempt, raises OandaHTTPError
\* with that status; and with max_retries >= 1 it ends in no other way.
C40_RequestTerminates ==
    /\ []RequestShape
    /\ [][RequestStep]_vars
    /\ <>RequestOver

\* no response so far carried a Retry-After that str.isdigit accepts and
\* float refuses
PlainHeaders ==
    \A k \in 1..Len(http.responses) :
        ~(IsDigit(http.responses[k].retry_after)
            /\ FloatRaises(http.responses[k].retry_after))

\* the part of C40 that holds: the call always ends, after at most
\* max_retries attempts, and as the claim says when every Retry-After is
\* absent, a decimal number or not a number at all
C40_PlainHeaders ==
    /\ [](PlainHeaders => RequestShape)
    /\ [](Len(http.responses) <= http.max_retries \/ http.pc = "none")
    /\ [][RequestStep]_vars
    /\ <>RequestOver


=============================================================================
